---- MODULE Spec2Model ----
(***************************************************************************)
(* Model of src/app.py: load_config at import, the data_fetch_loop thread  *)
(* with its live path (fetch_single_location, fetch_all_locations as a     *)
(* ThreadPoolExecutor fan-out, process_all_responses, socketio.emit) and   *)
(* its test-mode path (generate_fake_data_multi_location), the executor    *)
(* under a clock (SpecPool), and the /test-api route served on request     *)
(* threads beside the loop (SpecDemand).  Model of src/backend/app.py: the *)
(* POST /api/vehicles handler get_vehicles with fetch_from_bolt,           *)
(* build_fallback_vehicles and haversine_distance (SpecBackend).           *)
(*                                                                         *)
(* Python values are encoded as records with a tag t and one field per     *)
(* tag: None -> "null", numbers -> "num" (n), str -> "str" (s),            *)
(* list -> "list" (l), dict -> "map" (m, the sequence of <<key, value>>    *)
(* items in insertion order).  A raised exception travels as a value       *)
(* tagged "exc" (e) through the operators that model an expression.  The   *)
(* floats the backend reads keep their class: finite -> "num", infinite    *)
(* -> "inf", not a number -> "nan".                                        *)
(***************************************************************************)
EXTENDS Integers, Sequences, FiniteSets, TLC

\* ------------------------------------------------------------------ bounds
\* Number of configured polling locations (src/app.py LOCATIONS has 14).
NumLocations == 3
\* Worker capacity of the executor.  src/app.py:88 sets 10; the model scales
\* it down together with NumLocations so that locations queue for a slot.
MAX_WORKERS == 2
\* Longest batch handed to process_all_responses on its own.
MaxBatch == 3
\* Fewest and most cars generate_fake_data_multi_location makes up for one
\* location (src/app.py:245 draws from 5..15).
MinFakeCars == 1
MaxFakeCars == 2
\* Longest list of locations the fan-out is timed with.
PoolLocations == 5
\* Number of locations the loop and the /test-api requests poll when they
\* run side by side.
DemandLocations == 1

\* ------------------------------------------------------- Python values
JNull == [t |-> "null"]
JNum(n) == [t |-> "num", n |-> n]
JStr(s) == [t |-> "str", s |-> s]
JList(items) == [t |-> "list", l |-> items]
JMap(items) == [t |-> "map", m |-> items]
EmptyMap == JMap(<<>>)
Exc(name) == [t |-> "exc", e |-> name]

IsExc(x) == x.t = "exc"

\* bool(x) of a Python value.
Truthy(x) ==
    CASE x.t = "null" -> FALSE
      [] x.t = "num" -> x.n # 0
      [] x.t = "str" -> x.s # ""
      [] x.t = "list" -> Len(x.l) > 0
      [] x.t = "map" -> Len(x.m) > 0
      [] OTHER -> FALSE

\* hash(x) is defined: lists and dicts are unhashable.
Hashable(x) == x.t \in {"null", "num", "str"}

HasKey(d, key) == \E i \in 1..Len(d.m) : d.m[i][1] = key

Lookup(d, key) == d.m[CHOOSE i \in 1..Len(d.m) : d.m[i][1] = key][2]

\* d.get(key, default): AttributeError unless d is a dict; a key that is
\* present with value None yields None, not the default.
Get(d, key, default) ==
    IF IsExc(d) THEN d
    ELSE IF d.t # "map" THEN Exc("AttributeError")
    ELSE IF HasKey(d, key) THEN Lookup(d, key)
    ELSE default

\* s.strip(): AttributeError unless s is a str.
StripStr(s) ==
    CASE s = " icon " -> "icon"
      [] s = " " -> ""
      [] OTHER -> s

Strip(x) ==
    IF IsExc(x) THEN x
    ELSE IF x.t # "str" THEN Exc("AttributeError")
    ELSE JStr(StripStr(x.s))

\* d[key]: KeyError when the key is absent.
Item(d, key) == IF HasKey(d, key) THEN Lookup(d, key) ELSE Exc("KeyError")

\* ----------------------------------------------- process_all_responses
\* The locals of process_all_responses as one record; exc is the exception
\* that left the function ("none" while it is still running normally).
MergeStart ==
    [exc |-> "none", all_vehicles |-> <<>>, vehicle_ids |-> {},
     success_count |-> 0, fail_count |-> 0]

Raise(st, name) == [st EXCEPT !.exc = name]

\* Mutant of IsDuplicate: the seen-id test is lost, every record is new.
IsDuplicateNever(vehicle_id, vehicle_ids) == FALSE

\* vehicle_id in vehicle_ids (line 216) for a hashable vehicle_id.
IsDuplicate(vehicle_id, vehicle_ids) == vehicle_id \in vehicle_ids

\* vehicle_info["lat"] and vehicle_info["lng"] (line 230).
ValidCoordinates(vehicle_info) ==
    Truthy(vehicle_info.lat) /\ Truthy(vehicle_info.lng)

\* Lines 219-229: the vehicle_info dict of one car, or the exception raised
\* while building it.
VehicleInfo(car, vehicle_id, category_id, icons, categories, location) ==
    LET icon_url == Strip(Get(Get(icons, category_id, EmptyMap), "icon_url", JStr("")))
        category_name == Get(Get(categories, category_id, EmptyMap), "name", JStr("Unknown"))
    IN  IF IsExc(icon_url) THEN icon_url
        ELSE IF IsExc(category_name) THEN category_name
        ELSE [id |-> vehicle_id,
              lat |-> Get(car, "lat", JNull),
              lng |-> Get(car, "lng", JNull),
              bearing |-> Get(car, "bearing", JNum(0)),
              icon_url |-> icon_url,
              category_name |-> category_name,
              category_id |-> category_id,
              source_location |-> location]

\* Mutant of ProcessCar: a record replaces the vehicle already kept for
\* its id (last processed wins).
ProcessCarLastWins(st, car, category_id, icons, categories, location) ==
    IF st.exc # "none" THEN st
    ELSE
    LET vehicle_id == Get(car, "id", JNull)
        vehicle_info == VehicleInfo(car, vehicle_id, category_id, icons, categories, location)
    IN
    IF IsExc(vehicle_id) THEN Raise(st, vehicle_id.e)
    ELSE IF ~Hashable(vehicle_id) THEN Raise(st, "TypeError")
    ELSE IF "t" \in DOMAIN vehicle_info THEN Raise(st, vehicle_info.e)
    ELSE [st EXCEPT !.vehicle_ids = @ \cup {vehicle_id},
                    !.all_vehicles =
                        IF ValidCoordinates(vehicle_info)
                        THEN Append(SelectSeq(@, LAMBDA v : v.id # vehicle_id), vehicle_info)
                        ELSE @]

\* Lines 215-231: the body of "for car in cars".
ProcessCar(st, car, category_id, icons, categories, location) ==
    IF st.exc # "none" THEN st
    ELSE
    LET vehicle_id == Get(car, "id", JNull) IN
    IF IsExc(vehicle_id) THEN Raise(st, vehicle_id.e)
    ELSE IF ~Hashable(vehicle_id) THEN Raise(st, "TypeError")
    ELSE IF IsDuplicate(vehicle_id, st.vehicle_ids) THEN st
    ELSE
    LET vehicle_info == VehicleInfo(car, vehicle_id, category_id, icons, categories, location) IN
    IF "t" \in DOMAIN vehicle_info THEN Raise(st, vehicle_info.e)
    ELSE [st EXCEPT !.vehicle_ids = @ \cup {vehicle_id},
                    !.all_vehicles = IF ValidCoordinates(vehicle_info)
                                     THEN Append(@, vehicle_info) ELSE @]

\* Line 214: for car in cars, from the i-th car on.
RECURSIVE ProcessCars(_, _, _, _, _, _, _)
ProcessCars(st, cars, i, category_id, icons, categories, location) ==
    IF i > Len(cars) \/ st.exc # "none" THEN st
    ELSE ProcessCars(ProcessCar(st, cars[i], category_id, icons, categories, location),
                     cars, i + 1, category_id, icons, categories, location)

\* Lines 211-213: for category_id, cars in taxi_vehicles.items(), from the
\* j-th item on; a value that is not a list is skipped.
RECURSIVE ProcessCategories(_, _, _, _, _, _)
ProcessCategories(st, items, j, icons, categories, location) ==
    IF j > Len(items) \/ st.exc # "none" THEN st
    ELSE LET category_id == items[j][1]
             cars == items[j][2]
             next == IF cars.t # "list" THEN st
                     ELSE ProcessCars(st, cars.l, 1, category_id, icons, categories, location)
         IN  ProcessCategories(next, items, j + 1, icons, categories, location)

\* Mutant of FailedResponse: a failed result zeroes the batch so far.
FailedResponseClears(st, response) ==
    [st EXCEPT !.fail_count = @ + 1, !.all_vehicles = <<>>]

\* Lines 197-199: a result with success false is counted and skipped.
FailedResponse(st, response) == [st EXCEPT !.fail_count = @ + 1]

\* Lines 201-231: a result with success true.
SuccessfulResponse(st, response) ==
    LET st1 == [st EXCEPT !.success_count = @ + 1]
        data == response.data
    IN
    IF ~Truthy(data) THEN st1
    ELSE
    LET vehicles == Get(Get(data, "data", EmptyMap), "vehicles", EmptyMap)
        taxi_vehicles == Get(vehicles, "taxi", EmptyMap)
        icons == Get(Get(vehicles, "icons", EmptyMap), "taxi", EmptyMap)
        categories == Get(Get(vehicles, "category_details", EmptyMap), "taxi", EmptyMap)
    IN
    IF IsExc(vehicles) THEN Raise(st1, vehicles.e)
    ELSE IF IsExc(taxi_vehicles) THEN Raise(st1, taxi_vehicles.e)
    ELSE IF IsExc(icons) THEN Raise(st1, icons.e)
    ELSE IF IsExc(categories) THEN Raise(st1, categories.e)
    ELSE IF taxi_vehicles.t # "map" THEN Raise(st1, "AttributeError")
    ELSE ProcessCategories(st1, taxi_vehicles.m, 1, icons, categories, response.location)

\* Lines 196-231: the body of "for response in responses".
ProcessResponse(st, response) ==
    IF st.exc # "none" THEN st
    ELSE IF ~response.success THEN FailedResponse(st, response)
    ELSE SuccessfulResponse(st, response)

RECURSIVE ProcessResponses(_, _, _)
ProcessResponses(st, responses, k) ==
    IF k > Len(responses) \/ st.exc # "none" THEN st
    ELSE ProcessResponses(ProcessResponse(st, responses[k]), responses, k + 1)

\* process_all_responses(responses): the locals at the point where the
\* function is left; it returns all_vehicles when exc = "none" and raises
\* exc otherwise.
process_all_responses(responses) == ProcessResponses(MergeStart, responses, 1)

\* ----------------------------------------------- fetch_single_location
\* What requests.post does for one call: a response with a status code and
\* a body, or a raised requests exception.  A body that response.json()
\* cannot decode is tagged "undecodable".
Undecodable == [t |-> "undecodable"]
Response(status_code, body) ==
    [kind |-> "response", status_code |-> status_code, body |-> body]
RaisesTimeout == [kind |-> "Timeout", status_code |-> 0, body |-> JNull]
RaisesConnectionError == [kind |-> "ConnectionError", status_code |-> 0, body |-> JNull]

\* Mutant of ExceptResult: the handler lets the exception go on.
ExceptResultReraise(location, message) == [result |-> JNull, exception |-> "Exception"]

\* Lines 178-179: the except handler; location["name"] is evaluated again.
ExceptResult(location, message) ==
    LET name == Item(location, "name") IN
    IF IsExc(name) THEN [result |-> JNull, exception |-> name.e]
    ELSE [result |-> [location |-> name.s, data |-> JNull, success |-> FALSE,
                      error |-> message],
          exception |-> "none"]

\* Lines 174-177: the two branches on response.status_code.
StatusResult(location, upstream) ==
    IF upstream.status_code = 200
    THEN IF upstream.body.t = "undecodable"
         THEN ExceptResult(location, "Expecting value")
         ELSE [result |-> [location |-> Item(location, "name").s,
                           data |-> upstream.body, success |-> TRUE],
               exception |-> "none"]
    ELSE [result |-> [location |-> Item(location, "name").s, data |-> JNull,
                      success |-> FALSE,
                      error |-> "Status " \o ToString(upstream.status_code)],
          exception |-> "none"]

\* Lines 121-170 run through: the record has the keys read before line 172.
ReachesPost(location) ==
    HasKey(location, "lat") /\ HasKey(location, "lng") /\ HasKey(location, "name")

\* fetch_single_location(location) against an upstream that behaves as
\* `upstream`: what the call returns (result) or raises (exception).
fetch_single_location(location, upstream) ==
    IF ~HasKey(location, "lat") THEN ExceptResult(location, "'lat'")
    ELSE IF ~HasKey(location, "lng") THEN ExceptResult(location, "'lng'")
    ELSE IF ~HasKey(location, "name") THEN ExceptResult(location, "'name'")
    ELSE IF upstream.kind = "Timeout" THEN ExceptResult(location, "Read timed out")
    ELSE IF upstream.kind = "ConnectionError" THEN ExceptResult(location, "Connection refused")
    ELSE StatusResult(location, upstream)

\* ------------------------------------------------------------ LOCATIONS
\* The names of the configured locations (src/app.py LOCATIONS), in order.
LocationNames ==
    <<"City Center", "Old City", "Tha Phae Gate", "Nimman", "CMU Area",
      "Maya Mall", "Airport", "San Kamphaeng", "Hang Dong", "Doi Saket",
      "Mae Rim", "Doi Suthep", "San Sai", "Saraphi">>

\* A location record as LOCATIONS holds it (coordinates rounded).
Location(i) ==
    JMap(<< <<"name", JStr(LocationNames[i])>>, <<"lat", JNum(18)>>, <<"lng", JNum(98)>> >>)

\* A location record that lacks its latitude.
LocationNoLat(i) ==
    JMap(<< <<"name", JStr(LocationNames[i])>>, <<"lng", JNum(98)>> >>)

\* The location lists the model runs with: the first n configured ones for
\* every n up to NumLocations, and the longest list with an invalid record
\* (no "lat") in its last place.
LocationLists ==
    { [i \in 1..n |-> Location(i)] : n \in 0..NumLocations }
    \cup { [i \in 1..NumLocations |-> IF i = NumLocations THEN LocationNoLat(i) ELSE Location(i)] }

\* ------------------------------------------------------ upstream payloads
Car(id, lat, lng) == JMap(<< <<"id", id>>, <<"lat", lat>>, <<"lng", lng>> >>)
CarBearing(id, lat, lng, bearing) ==
    JMap(<< <<"id", id>>, <<"lat", lat>>, <<"lng", lng>>, <<"bearing", bearing>> >>)

\* The poll response body around a vehicles mapping.
Body(vehicles) == JMap(<< <<"data", JMap(<< <<"vehicles", vehicles>> >>)>> >>)
\* A vehicles mapping that has only the "taxi" table.
Taxi(items) == JMap(<< <<"taxi", JMap(items)>> >>)

\* Location A of the scenario: v1, v2, with icon and category tables.
PayloadA ==
    Body(JMap(<<
        <<"taxi", JMap(<< <<"c1", JList(<<CarBearing(JStr("v1"), JNum(10), JNum(20), JNum(90)),
                                          Car(JStr("v2"), JNum(11), JNum(21))>>)>> >>)>>,
        <<"icons", JMap(<< <<"taxi", JMap(<< <<"c1", JMap(<< <<"icon_url", JStr(" icon ")>> >>)>> >>)>> >>)>>,
        <<"category_details", JMap(<< <<"taxi", JMap(<< <<"c1", JMap(<< <<"name", JStr("Economy")>> >>)>> >>)>> >>)>>
    >>))
\* Location B of the scenario: v2 at other coordinates, v3.
PayloadB ==
    Body(Taxi(<< <<"c2", JList(<<Car(JStr("v2"), JNum(12), JNum(22)),
                                 Car(JStr("v3"), JNum(13), JNum(23))>>)>> >>))
\* A record with lat = null before a valid sibling.
PayloadNullLat ==
    Body(Taxi(<< <<"c1", JList(<<Car(JStr("v1"), JNull, JNum(20)),
                                 Car(JStr("v3"), JNum(14), JNum(24))>>)>> >>))
\* A record with lat = 0 and a record without "lng".
PayloadZeroLat ==
    Body(Taxi(<< <<"c1", JList(<<Car(JStr("v2"), JNum(0), JNum(5)),
                                 JMap(<< <<"id", JStr("v3")>>, <<"lat", JNum(15)>> >>)>>)>> >>))
\* The same id in two categories of one payload.
PayloadTwoCategories ==
    Body(Taxi(<< <<"c1", JList(<<Car(JStr("v1"), JNum(16), JNum(26))>>)>>,
                 <<"c2", JList(<<Car(JStr("v1"), JNum(17), JNum(27)),
                                 Car(JStr("v3"), JNum(18), JNum(28))>>)>> >>))
\* Records without an id (key absent, value null) and a sibling.
PayloadNoId ==
    Body(Taxi(<< <<"c1", JList(<<JMap(<< <<"lat", JNum(19)>>, <<"lng", JNum(29)>> >>),
                                 Car(JNull, JNum(31), JNum(32)),
                                 Car(JStr("v2"), JNum(33), JNum(34))>>)>> >>))
\* A category whose value is not a list, next to a regular one.
PayloadCarsNotList ==
    Body(Taxi(<< <<"c1", JMap(<< <<"x", JNum(1)>> >>)>>,
                 <<"c2", JList(<<Car(JStr("v3"), JNum(35), JNum(36))>>)>> >>))
\* Malformed nested structures, one per level.
PayloadDataNull == JMap(<< <<"data", JNull>> >>)
PayloadVehiclesList == Body(JList(<<Car(JStr("v1"), JNum(10), JNum(20))>>))
PayloadTaxiNull == Body(JMap(<< <<"taxi", JNull>> >>))
PayloadIconsNull ==
    Body(JMap(<< <<"taxi", JMap(<< <<"c1", JList(<<Car(JStr("v1"), JNum(10), JNum(20))>>)>> >>)>>,
                 <<"icons", JNull>> >>))
PayloadCategoryDetailsNull ==
    Body(JMap(<< <<"taxi", JMap(<< <<"c1", JList(<<Car(JStr("v1"), JNum(10), JNum(20))>>)>> >>)>>,
                 <<"category_details", JMap(<< <<"taxi", JNull>> >>)>> >>))
PayloadCarNotMap ==
    Body(Taxi(<< <<"c1", JList(<<Car(JStr("v1"), JNum(10), JNum(20)), JStr("oops")>>)>> >>))
PayloadNotMap == JList(<<JNum(1)>>)
\* Bodies that are falsy: JSON null and the empty object.
PayloadEmpty == EmptyMap

WellFormedPayloads ==
    {PayloadA, PayloadB, PayloadNullLat, PayloadZeroLat, PayloadTwoCategories,
     PayloadNoId, PayloadCarsNotList, PayloadEmpty, JNull}
MalformedPayloads ==
    {PayloadDataNull, PayloadVehiclesList, PayloadTaxiNull, PayloadIconsNull,
     PayloadCategoryDetailsNull, PayloadCarNotMap, PayloadNotMap}

\* What the upstream does for one call in the fan-out model.
LiveUpstreams ==
    {Response(200, PayloadA), Response(200, PayloadDataNull), Response(200, Undecodable),
     Response(500, PayloadB), RaisesTimeout, RaisesConnectionError}

\* What the upstream does for one call when a batch is built for the merge:
\* every payload, or a timeout.
BatchUpstreams ==
    {Response(200, p) : p \in WellFormedPayloads \cup MalformedPayloads} \cup {RaisesTimeout}

\* The upstream outcomes that are combined freely in longer batches.
CoreUpstreams ==
    {Response(200, p) : p \in {PayloadA, PayloadB, PayloadNullLat, PayloadZeroLat,
                                PayloadTwoCategories, PayloadNoId, JNull,
                                PayloadDataNull, PayloadCategoryDetailsNull}}
    \cup {RaisesTimeout}

\* The n results fetch_single_location builds, the i-th one for the i-th
\* location with the upstream behaving as u[i].
BatchOf(n, u) == [i \in 1..n |-> fetch_single_location(Location(i), u[i]).result]

\* The batches process_all_responses is applied to: every outcome on its
\* own, and every combination of up to MaxBatch core outcomes.
Batches ==
    { BatchOf(1, <<u>>) : u \in BatchUpstreams }
    \cup UNION { { BatchOf(n, u) : u \in [1..n -> CoreUpstreams] } : n \in 0..MaxBatch }

\* ------------------------------------------------------------ load_config
\* Lines 33-41: the variables load_config requires, in order.
required_vars ==
    <<"BOLT_BEARER_TOKEN", "BOLT_DEVICE_ID", "BOLT_DEVICE_NAME",
      "BOLT_DEVICE_OS_VERSION", "BOLT_USER_ID", "BOLT_DISTINCT_ID",
      "BOLT_RH_SESSION_ID">>

\* Lines 60-66: the optional variables and their defaults.
optional_defaults ==
    << <<"BOLT_CHANNEL", JStr("googleplay")>>, <<"BOLT_BRAND", JStr("bolt")>>,
       <<"BOLT_DEVICE_TYPE", JStr("android")>>, <<"BOLT_COUNTRY", JStr("th")>>,
       <<"BOLT_LANGUAGE", JStr("th")>> >>

\* os.getenv(var, default) on the process environment, a dict of str.
getenv(env, var, default) == Get(env, var, default)

\* Mutant of IsSet: a variable counts as set as soon as it is defined.
IsSetDefined(value) == value # JNull

\* Line 48: "if value" for the value os.getenv(var) returned.
IsSet(value) == Truthy(value)

\* Lines 46-51: the required variables that are unset or empty, in order.
MissingVars(env) ==
    SelectSeq(required_vars, LAMBDA var : ~IsSet(getenv(env, var, JNull)))

\* load_config(): the config dict it returns, or the RuntimeError it raises
\* when a required variable is missing.
load_config(env) ==
    IF Len(MissingVars(env)) > 0
    THEN [config |-> JNull, exception |-> "RuntimeError"]
    ELSE [config |->
            JMap([k \in 1..(Len(required_vars) + Len(optional_defaults)) |->
                    IF k <= Len(required_vars)
                    THEN <<required_vars[k], getenv(env, required_vars[k], JNull)>>
                    ELSE LET o == optional_defaults[k - Len(required_vars)]
                         IN  <<o[1], getenv(env, o[1], o[2])>>]),
          exception |-> "none"]

\* The environment with every required variable set.
FullEnviron == JMap([k \in 1..Len(required_vars) |-> <<required_vars[k], JStr("x")>>])

\* FullEnviron with the k-th required variable set to value.
EnvironWith(k, value) ==
    JMap([j \in 1..Len(required_vars) |->
            IF j = k THEN <<required_vars[j], value>> ELSE FullEnviron.m[j]])

\* FullEnviron without the k-th required variable.
EnvironWithout(k) ==
    JMap(SelectSeq(FullEnviron.m, LAMBDA item : item[1] # required_vars[k]))

\* The process environments the program is started in: complete, one
\* required variable unset or empty, and nothing set at all.
Environments ==
    {FullEnviron, EmptyMap}
    \cup {EnvironWithout(k) : k \in 1..Len(required_vars)}
    \cup {EnvironWith(k, JStr("")) : k \in 1..Len(required_vars)}

\* ------------------------------------ generate_fake_data_multi_location
\* What the random module hands out during one call: the number of cars
\* of each location and the offset, bearing and category of its cars.
FakeDraw(num_cars, offset, bearing, category_name) ==
    [num_cars |-> num_cars, offset |-> offset, bearing |-> bearing,
     category_name |-> category_name]

\* Lines 249-258: the i-th fake vehicle of the location with index idx
\* (both counted from 0).
FakeVehicle(location, idx, i, rnd) ==
    [id |-> JStr("FAKE_" \o ToString(idx) \o "_" \o ToString(i)),
     lat |-> JNum(Item(location, "lat").n + rnd.offset),
     lng |-> JNum(Item(location, "lng").n + rnd.offset),
     bearing |-> JNum(rnd.bearing),
     icon_url |-> JStr("marker-icon-2x-blue.png"),
     category_name |-> JStr(rnd.category_name),
     category_id |-> "economy",
     source_location |-> Item(location, "name").s]

\* Lines 251-257: building a vehicle of this location raises KeyError,
\* because the record lacks a key that is read.
FakeVehicleRaises(location) ==
    ~HasKey(location, "lat") \/ ~HasKey(location, "lng") \/ ~HasKey(location, "name")

\* Lines 244-259: the vehicles the loop over LOCATIONS appends from index
\* idx on (0-based).
RECURSIVE FakeVehiclesFrom(_, _, _)
FakeVehiclesFrom(locations, idx, rnd) ==
    IF idx >= Len(locations) THEN <<>>
    ELSE [i \in 1..rnd.num_cars[idx + 1] |-> FakeVehicle(locations[idx + 1], idx, i - 1, rnd)]
         \o FakeVehiclesFrom(locations, idx + 1, rnd)

\* generate_fake_data_multi_location() with the random draws rnd: the list
\* it returns, or the KeyError of the first vehicle that cannot be built.
generate_fake_data_multi_location(locations, rnd) ==
    IF \E k \in 1..Len(locations) : rnd.num_cars[k] > 0 /\ FakeVehicleRaises(locations[k])
    THEN [all_vehicles |-> <<>>, exception |-> "KeyError"]
    ELSE [all_vehicles |-> FakeVehiclesFrom(locations, 0, rnd), exception |-> "none"]

\* The draws of one call: any number of cars per location within the
\* range, and one of three settings for the fields of the cars.
FakeDraws(n) ==
    { FakeDraw(num_cars, f[1], f[2], f[3]) :
        num_cars \in [1..n -> MinFakeCars..MaxFakeCars],
        f \in {<<-1, 0, "Economy">>, <<0, 180, "Comfort">>, <<1, 359, "XL">>} }

\* ------------------------------------------------------------------ state
VARIABLES
    environ,        \* os.environ after load_env_file
    CONFIG,         \* the module-level CONFIG, None until load_config returned
    TEST_MODE,      \* the module-level TEST_MODE switch
    LOCATIONS,      \* the module-level list of location records
    events,         \* what the current iteration has done so far, in order
    pc,             \* where the data_fetch_loop thread stands
    futures,        \* fetch_all_locations: the future of each location, by index
    posts,          \* what requests.post did in the call of each location
    queue,          \* the executor's work queue (indices, first in first out)
    yielded,        \* the futures as_completed has handed out
    all_responses,  \* fetch_all_locations' list, then the loop's responses
    vehicles,       \* the loop's vehicles, once process_all_responses returned
    snapshot,       \* the payload of this iteration's vehicles_update event
    caught,         \* the exception the loop's except clause caught
    clock,          \* the time since the fan-out began, and when each call began
    requests,       \* the /test-api requests in progress, by request thread
    server,         \* whether the main thread has reached socketio.run
    backend         \* src/backend/app.py: its build, and the request on each of its threads

\* The module-level names set at import time.
globals == <<environ, CONFIG, TEST_MODE, LOCATIONS>>

vars == <<globals, server, clock, requests, backend, events, pc, futures, posts, queue, yielded, all_responses, vehicles, snapshot, caught>>

NoFuture == [state |-> "NONE", result |-> JNull, exception |-> "none"]
NoPost == [kind |-> "none", status_code |-> 0, body |-> JNull]
NoSnapshot == [emitted |-> FALSE]

\* The threads of the server that handle requests: one for an on-demand
\* run next to the loop, one more for an on-demand run next to another.
RequestThreads == {"request_1", "request_2"}
\* A request thread that handles no /test-api request.
NoRequest == [pc |-> "idle", futures |-> <<>>, posts |-> <<>>, queue |-> <<>>, yielded |-> {},
              responses |-> <<>>, caught |-> "none", vehicles |-> <<>>, reply |-> [status |-> 0]]
NoRequests == [r \in RequestThreads |-> NoRequest]

\* src/backend/app.py is not running.
NoBackend == [bolt_token |-> "", strict_json |-> FALSE,
              calls |-> [t \in RequestThreads |-> [pc |-> "idle"]]]

\* The variables of the data_fetch_loop thread and its executor.
loop == <<events, pc, futures, posts, queue, yielded, all_responses, vehicles, snapshot, caught>>

Indices == 1..Len(LOCATIONS)
\* fetch_all_locations is called: no time has passed and no call has begun.
ClockAtZero == [now |-> 0, started |-> [i \in Indices |-> 0]]
Submitted == {i \in Indices : futures[i].state # "NONE"}
Queued == {i \in Indices : futures[i].state = "PENDING"}
InFlight == {i \in Indices : futures[i].state = "RUNNING"}
Finished == {i \in Indices : futures[i].state = "FINISHED"}

\* The process before line 74: nothing of the module has run yet.
Init ==
    /\ environ \in Environments
    /\ CONFIG = JNull
    /\ TEST_MODE \in BOOLEAN
    /\ LOCATIONS \in LocationLists
    /\ events = <<>>
    /\ pc = "load_config"
    /\ futures = [i \in 1..Len(LOCATIONS) |-> NoFuture]
    /\ posts = [i \in 1..Len(LOCATIONS) |-> NoPost]
    /\ queue = <<>>
    /\ yielded = {}
    /\ all_responses = <<>>
    /\ vehicles = <<>>
    /\ snapshot = NoSnapshot
    /\ caught = "none"
    /\ clock = ClockAtZero
    /\ requests = NoRequests
    /\ server = "down"
    /\ backend = NoBackend

\* Line 75: CONFIG = load_config().  The RuntimeError of a missing variable
\* ends the process during import, before anything else is defined.
LoadConfig ==
    /\ pc = "load_config"
    /\ LET loaded == load_config(environ) IN
        IF loaded.exception # "none"
        THEN /\ caught' = loaded.exception
             /\ pc' = "exit"
             /\ UNCHANGED CONFIG
        ELSE /\ CONFIG' = loaded.config
             /\ pc' = "main"
             /\ UNCHANGED caught
    /\ UNCHANGED <<environ, TEST_MODE, LOCATIONS, server, clock, requests, backend, events, futures, posts, queue, yielded,
                   all_responses, vehicles, snapshot>>

\* Lines 360-371: the main block starts the thread that runs
\* data_fetch_loop; the main thread itself goes on to line 373.
Main ==
    /\ pc = "main"
    /\ pc' = "cycle_start"
    /\ UNCHANGED <<globals, server, clock, requests, backend, events, futures, posts, queue, yielded, all_responses, vehicles,
                   snapshot, caught>>

\* Lines 373-379: after its prints the main thread calls socketio.run, and
\* the server handles requests from then on.  The loop's thread runs since
\* line 371 and may be anywhere in its iterations by then.
Serve ==
    /\ pc \notin {"load_config", "main", "exit"}
    /\ server = "down"
    /\ server' = "up"
    /\ UNCHANGED <<globals, clock, requests, backend, loop>>

\* Mutant of StartCycle: iterations are started by a timer, also while the
\* previous one still collects its futures.
StartCycleOnTimer ==
    /\ pc \in {"cycle_start", "as_completed"}
    /\ ~TEST_MODE
    /\ events' = <<"start">>
    /\ pc' = IF Len(LOCATIONS) = 0 THEN "merge" ELSE "submit"
    /\ futures' = [i \in Indices |-> NoFuture]
    /\ posts' = [i \in Indices |-> NoPost]
    /\ queue' = <<>>
    /\ yielded' = {}
    /\ all_responses' = <<>>
    /\ vehicles' = <<>>
    /\ snapshot' = NoSnapshot
    /\ caught' = "none"
    /\ clock' = ClockAtZero
    /\ UNCHANGED <<globals, server, requests, backend>>

\* data_fetch_loop, lines 268-279: a new iteration enters the try block and
\* calls fetch_all_locations, which creates its list and its executor.
StartCycle ==
    /\ pc = "cycle_start"
    /\ ~TEST_MODE
    /\ events' = <<"start">>
    /\ pc' = IF Len(LOCATIONS) = 0 THEN "merge" ELSE "submit"
    /\ futures' = [i \in Indices |-> NoFuture]
    /\ posts' = [i \in Indices |-> NoPost]
    /\ queue' = <<>>
    /\ yielded' = {}
    /\ all_responses' = <<>>
    /\ vehicles' = <<>>
    /\ snapshot' = NoSnapshot
    /\ caught' = "none"
    /\ clock' = ClockAtZero
    /\ UNCHANGED <<globals, server, requests, backend>>

\* Lines 268-277 with TEST_MODE on: the iteration makes up its vehicles and
\* has no responses; an exception of the generator goes to the loop's
\* except clause.
TestCycle(rnd) ==
    /\ pc = "cycle_start"
    /\ TEST_MODE
    /\ events' = <<"start">>
    /\ futures' = [i \in Indices |-> NoFuture]
    /\ posts' = [i \in Indices |-> NoPost]
    /\ queue' = <<>>
    /\ yielded' = {}
    /\ all_responses' = <<>>
    /\ snapshot' = NoSnapshot
    /\ LET fake == generate_fake_data_multi_location(LOCATIONS, rnd) IN
        IF fake.exception # "none"
        THEN /\ caught' = fake.exception
             /\ pc' = "except"
             /\ vehicles' = <<>>
        ELSE /\ vehicles' = fake.all_vehicles
             /\ pc' = "emit"
             /\ caught' = "none"
    /\ clock' = ClockAtZero
    /\ UNCHANGED <<globals, server, requests, backend>>

\* Line 184: executor.submit for the next location of LOCATIONS; the work
\* item joins the queue.  After the last one the dict is complete and
\* as_completed starts.
Submit ==
    /\ pc = "submit"
    /\ LET i == Cardinality(Submitted) + 1 IN
        /\ futures' = [futures EXCEPT ![i].state = "PENDING"]
        /\ queue' = Append(queue, i)
        /\ pc' = IF i = Len(LOCATIONS) THEN "as_completed" ELSE "submit"
    /\ UNCHANGED <<globals, server, clock, requests, backend, events, posts, yielded, all_responses, vehicles, snapshot, caught>>

\* Mutant of WorkerFree: the pool runs one call at a time.
WorkerFreeSerial == InFlight = {}

\* Mutant of WorkerFree: a thread per work item, no cap.
WorkerFreeUnbounded == TRUE

\* Mutant of WorkerFree: a worker that has run a call never takes another
\* one (its slot is not given back).
WorkerFreeLeaky == Cardinality(InFlight \cup Finished) < MAX_WORKERS

\* A worker of the pool is free to take a work item: the pool has at most
\* MAX_WORKERS threads and each runs one item at a time.
WorkerFree == Cardinality(InFlight) < MAX_WORKERS

\* A worker thread takes the oldest work item and starts
\* fetch_single_location for it.
WorkerTake ==
    /\ queue # <<>>
    /\ WorkerFree
    /\ futures' = [futures EXCEPT ![Head(queue)].state = "RUNNING"]
    /\ queue' = Tail(queue)
    /\ clock' = [clock EXCEPT !.started[Head(queue)] = clock.now]
    /\ UNCHANGED <<globals, server, requests, backend, events, pc, posts, yielded, all_responses, vehicles, snapshot, caught>>

\* The call of one worker ends: the future holds what
\* fetch_single_location returned or raised.
WorkerFinish(i, upstream) ==
    /\ futures[i].state = "RUNNING"
    /\ LET call == fetch_single_location(LOCATIONS[i], upstream) IN
        futures' = [futures EXCEPT ![i] = [state |-> "FINISHED",
                                           result |-> call.result,
                                           exception |-> call.exception]]
    /\ posts' = [posts EXCEPT ![i] = IF ReachesPost(LOCATIONS[i]) THEN upstream ELSE NoPost]
    /\ UNCHANGED <<globals, server, clock, requests, backend, events, pc, queue, yielded, all_responses, vehicles, snapshot, caught>>

\* Mutant of AllYielded: the loop ends with the first future handed out.
AllYieldedFirst(done) == done # {}

\* as_completed has handed out every future: the for loop of line 185 ends.
AllYielded(done) == done = Indices

\* Mutant of Collect: the list is returned with the first future handed
\* out, without waiting for the executor.
CollectReturnEarly(i) ==
    /\ pc = "as_completed"
    /\ futures[i].state = "FINISHED"
    /\ i \notin yielded
    /\ yielded' = yielded \cup {i}
    /\ all_responses' = Append(all_responses, futures[i].result)
    /\ pc' = "merge"
    /\ UNCHANGED <<globals, server, clock, requests, backend, events, futures, posts, queue, vehicles, snapshot, caught>>

\* Lines 185-188: as_completed hands out a finished future; future.result()
\* returns its result, which is appended, or raises its exception.  The
\* with block is left after the last future (return) or on the exception;
\* either way executor.shutdown(wait=True) runs first.
Collect(i) ==
    /\ pc = "as_completed"
    /\ futures[i].state = "FINISHED"
    /\ i \notin yielded
    /\ yielded' = yielded \cup {i}
    /\ IF futures[i].exception # "none"
       THEN /\ caught' = futures[i].exception
            /\ pc' = "shutdown"
            /\ UNCHANGED all_responses
       ELSE /\ all_responses' = Append(all_responses, futures[i].result)
            /\ pc' = IF AllYielded(yielded') THEN "shutdown" ELSE "as_completed"
            /\ UNCHANGED caught
    /\ UNCHANGED <<globals, server, clock, requests, backend, events, futures, posts, queue, vehicles, snapshot>>

\* executor.shutdown(wait=True) may return: every worker thread has ended.
ShutdownDone == Queued = {} /\ InFlight = {}

\* The end of the with block: shutdown(wait=True) joins the workers, then
\* fetch_all_locations returns all_responses or the exception goes on to
\* the loop's except clause.
Shutdown ==
    /\ pc = "shutdown"
    /\ ShutdownDone
    /\ pc' = IF caught # "none" THEN "except" ELSE "merge"
    /\ UNCHANGED <<globals, server, clock, requests, backend, events, futures, posts, queue, yielded, all_responses, vehicles, snapshot, caught>>

\* Line 280: vehicles = process_all_responses(responses); an exception
\* goes to the loop's except clause.
Merge ==
    /\ pc = "merge"
    /\ LET st == process_all_responses(all_responses) IN
        IF st.exc # "none"
        THEN /\ caught' = st.exc
             /\ pc' = "except"
             /\ UNCHANGED <<vehicles, events>>
        ELSE /\ vehicles' = st.all_vehicles
             /\ pc' = "emit"
             /\ events' = Append(events, "merged")
             /\ UNCHANGED caught
    /\ UNCHANGED <<globals, server, clock, requests, backend, futures, posts, queue, yielded, all_responses, snapshot>>

\* Mutant of SuccessLocations: the filter of line 288 is negated.
SuccessLocationsNegated(responses) ==
    LET kept == SelectSeq(responses, LAMBDA r : ~r.success)
    IN  [k \in 1..Len(kept) |-> kept[k].location]

\* Line 288: [r["location"] for r in responses if r.get("success")].
SuccessLocations(responses) ==
    LET kept == SelectSeq(responses, LAMBDA r : r.success)
    IN  [k \in 1..Len(kept) |-> kept[k].location]

\* Line 289: [r["location"] for r in responses if not r.get("success")].
FailedLocations(responses) ==
    LET kept == SelectSeq(responses, LAMBDA r : ~r.success)
    IN  [k \in 1..Len(kept) |-> kept[k].location]

\* Lines 284-291: the vehicles_update payload.
Snapshot(vs, responses, locations) ==
    [emitted |-> TRUE,
     vehicles |-> vs,
     count |-> Len(vs),
     locations_count |-> Len(locations),
     success_locations |-> SuccessLocations(responses),
     failed_locations |-> FailedLocations(responses)]

\* Lines 282-293: socketio.emit of the snapshot.
Emit ==
    /\ pc = "emit"
    /\ snapshot' = Snapshot(vehicles, all_responses, LOCATIONS)
    /\ events' = Append(events, "emit")
    /\ pc' = "sleep"
    /\ UNCHANGED <<globals, server, clock, requests, backend, futures, posts, queue, yielded, all_responses, vehicles, caught>>

\* Lines 284-291: socketio.emit raises (the server cannot encode or send
\* the event); nothing is published and the exception goes to the loop's
\* except clause.
EmitRaises ==
    /\ pc = "emit"
    /\ caught' = "Exception"
    /\ events' = Append(events, "emit_raised")
    /\ pc' = "except"
    /\ UNCHANGED <<globals, server, clock, requests, backend, futures, posts, queue, yielded, all_responses, vehicles, snapshot>>

\* Mutant of Sleep: the iteration ends without the pause.
SleepSkipped ==
    /\ pc = "sleep"
    /\ pc' = "cycle_start"
    /\ UNCHANGED <<globals, server, clock, requests, backend, events, futures, posts, queue, yielded, all_responses, vehicles, snapshot, caught>>

\* Line 294: time.sleep(FETCH_INTERVAL) ends, the while loop goes round.
Sleep ==
    /\ pc = "sleep"
    /\ events' = Append(events, "sleep")
    /\ pc' = "cycle_start"
    /\ UNCHANGED <<globals, server, clock, requests, backend, futures, posts, queue, yielded, all_responses, vehicles, snapshot, caught>>

\* Mutant of ExceptLog: the except clause lets the exception end the
\* thread.
ExceptExit ==
    /\ pc = "except"
    /\ events' = Append(events, "error")
    /\ pc' = "exit"
    /\ UNCHANGED <<globals, server, clock, requests, backend, futures, posts, queue, yielded, all_responses, vehicles, snapshot, caught>>

\* Lines 295-296: the except clause catches the exception and prints it;
\* the thread then stands in time.sleep(FETCH_INTERVAL) of line 297.
ExceptLog ==
    /\ pc = "except"
    /\ events' = Append(events, "error")
    /\ pc' = "except_sleep"
    /\ UNCHANGED <<globals, server, clock, requests, backend, futures, posts, queue, yielded, all_responses, vehicles, snapshot, caught>>

\* Line 297: time.sleep(FETCH_INTERVAL) of the except clause ends, the
\* while loop goes round.
ExceptSleep ==
    /\ pc = "except_sleep"
    /\ events' = Append(events, "sleep")
    /\ pc' = "cycle_start"
    /\ UNCHANGED <<globals, server, clock, requests, backend, futures, posts, queue, yielded, all_responses, vehicles, snapshot, caught>>

\* The steps of the data_fetch_loop thread inside fetch_all_locations.
FanOutStep ==
    \/ StartCycle
    \/ Submit
    \/ \E i \in Indices : Collect(i)
    \/ Shutdown

\* The steps of the data_fetch_loop thread before line 280.
FetchStep ==
    \/ FanOutStep
    \/ \E rnd \in FakeDraws(Len(LOCATIONS)) : TestCycle(rnd)

\* The steps of the data_fetch_loop thread after line 280.
PublishStep ==
    \/ Emit
    \/ EmitRaises
    \/ Sleep
    \/ ExceptLog
    \/ ExceptSleep

\* The steps of the data_fetch_loop thread itself.
LoopStep == FetchStep \/ Merge \/ PublishStep

Next ==
    \/ LoadConfig
    \/ Main
    \/ Serve
    \/ LoopStep
    \/ WorkerTake
    \/ \E i \in Indices : \E upstream \in LiveUpstreams : WorkerFinish(i, upstream)

Spec == Init /\ [][Next]_vars

\* The same program against an upstream with fewer outcomes, for the
\* properties that need the whole behaviour: a decodable 200, a 200 whose
\* payload makes the merge raise, and a call that runs into its timeout.
FairUpstreams == {Response(200, PayloadB), Response(200, PayloadDataNull), RaisesTimeout}

NextFair ==
    \/ LoadConfig
    \/ Main
    \/ Serve
    \/ LoopStep
    \/ WorkerTake
    \/ \E i \in Indices : \E upstream \in FairUpstreams : WorkerFinish(i, upstream)

\* Scheduling: as long as some thread can take a step, one does.  The
\* interpreter runs every runnable thread, time.sleep returns, and every
\* requests.post returns or raises within its timeout (line 172).  Merge is
\* enabled exactly while pc = "merge" and always leaves it, and TestCycle
\* exactly at the top of the loop with TEST_MODE on, so their weak fairness
\* is written as the loop not staying there for ever.
Fairness ==
    /\ WF_vars(\/ LoadConfig
               \/ Main
               \/ Serve
               \/ FanOutStep
               \/ PublishStep
               \/ WorkerTake
               \/ \E i \in Indices : \E upstream \in FairUpstreams : WorkerFinish(i, upstream))
    /\ []<>(pc # "merge")
    /\ []<>(~(pc = "cycle_start" /\ TEST_MODE))

SpecFair == Init /\ [][NextFair]_vars /\ Fairness

\* process_all_responses on its own: the loop stands before line 280 with
\* an arbitrary batch of results as responses.
InitMerge ==
    /\ environ = FullEnviron
    /\ CONFIG = load_config(FullEnviron).config
    /\ TEST_MODE = FALSE
    /\ LOCATIONS = [i \in 1..NumLocations |-> Location(i)]
    /\ events = <<"start">>
    /\ pc = "merge"
    /\ futures = [i \in 1..NumLocations |-> NoFuture]
    /\ posts = [i \in 1..NumLocations |-> NoPost]
    /\ queue = <<>>
    /\ yielded = {}
    /\ all_responses \in Batches
    /\ vehicles = <<>>
    /\ snapshot = NoSnapshot
    /\ caught = "none"
    /\ clock = ClockAtZero
    /\ requests = NoRequests
    /\ server = "up"
    /\ backend = NoBackend

NextMerge == Merge \/ Emit

SpecMerge == InitMerge /\ [][NextMerge]_vars

\* fetch_single_location on its own: the fan-out stands in as_completed
\* with every worker busy and the other locations queued, and each call
\* meets any of the upstream outcomes below.
FetchUpstreams ==
    {Response(200, PayloadA), Response(200, JNull), Response(200, PayloadEmpty),
     Response(200, Undecodable), Response(201, PayloadA), Response(204, Undecodable),
     Response(404, PayloadEmpty), Response(500, Undecodable),
     RaisesTimeout, RaisesConnectionError}

InitFetch ==
    /\ environ = FullEnviron
    /\ CONFIG = load_config(FullEnviron).config
    /\ TEST_MODE = FALSE
    /\ LOCATIONS \in {locations \in LocationLists : Len(locations) > 0}
    /\ events = <<"start">>
    /\ pc = "as_completed"
    /\ futures = [i \in 1..Len(LOCATIONS) |->
                    [NoFuture EXCEPT !.state = IF i <= MAX_WORKERS THEN "RUNNING" ELSE "PENDING"]]
    /\ posts = [i \in 1..Len(LOCATIONS) |-> NoPost]
    /\ queue = [k \in 1..(IF Len(LOCATIONS) > MAX_WORKERS THEN Len(LOCATIONS) - MAX_WORKERS ELSE 0)
                  |-> MAX_WORKERS + k]
    /\ yielded = {}
    /\ all_responses = <<>>
    /\ vehicles = <<>>
    /\ snapshot = NoSnapshot
    /\ caught = "none"
    /\ clock = ClockAtZero
    /\ requests = NoRequests
    /\ server = "up"
    /\ backend = NoBackend

NextFetch ==
    \/ WorkerTake
    \/ \E i \in Indices : \E upstream \in FetchUpstreams : WorkerFinish(i, upstream)

SpecFetch == InitFetch /\ [][NextFetch]_vars

\* fetch_all_locations against calls that take one unit of time each, as in
\* the timing scenario: the loop stands at the top of an iteration of the
\* live path, and the clock runs while calls are in flight.
PoolUpstreams == {Response(200, PayloadA), RaisesTimeout}

\* The call of location i has run for its unit of time.
CallOver(i) == clock.now = clock.started[i] + 1

\* The call of a worker ends when its unit of time is over.
TimedFinish(i, upstream) ==
    /\ CallOver(i)
    /\ WorkerFinish(i, upstream)

\* One unit of time passes while calls are in flight.  The steps of the
\* threads themselves take no time: the submit loop of line 184 is through,
\* a worker that is free takes a queued work item at once (the executor's
\* worker threads block on its queue), and no call runs beyond its unit.
Tick ==
    /\ pc \in {"as_completed", "shutdown"}
    /\ InFlight # {}
    /\ ~(queue # <<>> /\ WorkerFree)
    /\ \A i \in InFlight : ~CallOver(i)
    /\ clock' = [clock EXCEPT !.now = @ + 1]
    /\ UNCHANGED <<globals, server, requests, backend, events, pc, futures, posts, queue, yielded, all_responses, vehicles,
                   snapshot, caught>>

InitPool ==
    /\ environ = FullEnviron
    /\ CONFIG = load_config(FullEnviron).config
    /\ TEST_MODE = FALSE
    /\ LOCATIONS \in { [i \in 1..n |-> Location(i)] : n \in 0..PoolLocations }
    /\ events = <<>>
    /\ pc = "cycle_start"
    /\ futures = [i \in 1..Len(LOCATIONS) |-> NoFuture]
    /\ posts = [i \in 1..Len(LOCATIONS) |-> NoPost]
    /\ queue = <<>>
    /\ yielded = {}
    /\ all_responses = <<>>
    /\ vehicles = <<>>
    /\ snapshot = NoSnapshot
    /\ caught = "none"
    /\ clock = ClockAtZero
    /\ requests = NoRequests
    /\ server = "up"
    /\ backend = NoBackend

NextPool ==
    \/ FanOutStep
    \/ WorkerTake
    \/ \E i \in Indices : \E upstream \in PoolUpstreams : TimedFinish(i, upstream)
    \/ Tick

SpecPool == InitPool /\ [][NextPool]_vars

\* ------------------------------------------------------------- /test-api
\* What the upstream does for one call while requests and the loop poll
\* side by side.
DemandUpstreams == {Response(200, PayloadA), RaisesTimeout}

\* The server handles requests: the main thread is in socketio.run of
\* line 379.
ServerUp == server = "up"

\* An exception leaves the view function: the server answers 500.
ErrorReply == [NoRequest EXCEPT !.pc = "error", !.reply = [status |-> 500]]

\* Lines 321 and 338: vehicles[:5].
SampleOf(vs) == SubSeq(vs, 1, IF Len(vs) < 5 THEN Len(vs) ELSE 5)

\* test_api with TEST_MODE on, lines 312-322.
TestApiFake(r, rnd) ==
    /\ ServerUp
    /\ TEST_MODE
    /\ requests[r].pc = "idle"
    /\ LET fake == generate_fake_data_multi_location(LOCATIONS, rnd) IN
        requests' = [requests EXCEPT ![r] =
            IF fake.exception # "none" THEN ErrorReply
            ELSE [NoRequest EXCEPT
                    !.pc = "replied",
                    !.vehicles = fake.all_vehicles,
                    !.reply = [status |-> 200,
                               success |-> TRUE,
                               mode |-> "TEST",
                               vehicle_count |-> Len(fake.all_vehicles),
                               locations_count |-> Len(LOCATIONS),
                               vehicles_sample |-> SampleOf(fake.all_vehicles)]]]
    /\ UNCHANGED <<globals, server, clock, backend, loop>>

\* test_api, line 324, calls fetch_all_locations on the request's thread;
\* lines 182-183: the call creates its own list and its own executor.
TestApiStart(r) ==
    /\ ServerUp
    /\ ~TEST_MODE
    /\ requests[r].pc = "idle"
    /\ requests' = [requests EXCEPT ![r] =
            [NoRequest EXCEPT !.pc = IF Len(LOCATIONS) = 0 THEN "fetched" ELSE "submit",
                              !.futures = [i \in Indices |-> NoFuture],
                              !.posts = [i \in Indices |-> NoPost]]]
    /\ UNCHANGED <<globals, server, clock, backend, loop>>

\* Line 184 on the request's thread: executor.submit for the next
\* location.
TestApiSubmit(r) ==
    /\ requests[r].pc = "submit"
    /\ LET i == Cardinality({j \in Indices : requests[r].futures[j].state # "NONE"}) + 1 IN
        requests' = [requests EXCEPT
            ![r].futures[i].state = "PENDING",
            ![r].queue = Append(@, i),
            ![r].pc = IF i = Len(LOCATIONS) THEN "as_completed" ELSE "submit"]
    /\ UNCHANGED <<globals, server, clock, backend, loop>>

\* A worker thread of the request's executor takes its oldest work item
\* and starts fetch_single_location for it; the executor has at most
\* MAX_WORKERS threads of its own.
TestApiWorkerTake(r) ==
    /\ requests[r].queue # <<>>
    /\ Cardinality({i \in Indices : requests[r].futures[i].state = "RUNNING"}) < MAX_WORKERS
    /\ requests' = [requests EXCEPT
            ![r].futures[Head(requests[r].queue)].state = "RUNNING",
            ![r].queue = Tail(@)]
    /\ UNCHANGED <<globals, server, clock, backend, loop>>

\* The call of one worker of the request's executor ends: requests.post of
\* line 172 has returned or raised, and the future holds what
\* fetch_single_location returned or raised.
TestApiWorkerFinish(r, i, upstream) ==
    /\ i \in DOMAIN requests[r].futures
    /\ requests[r].futures[i].state = "RUNNING"
    /\ LET call == fetch_single_location(LOCATIONS[i], upstream) IN
        requests' = [requests EXCEPT
            ![r].futures[i] = [state |-> "FINISHED",
                               result |-> call.result,
                               exception |-> call.exception],
            ![r].posts[i] = IF ReachesPost(LOCATIONS[i]) THEN upstream ELSE NoPost]
    /\ UNCHANGED <<globals, server, clock, backend, loop>>

\* Lines 185-188 on the request's thread: as_completed hands out a
\* finished future, in the order the calls end; its result is appended, or
\* its exception leaves the with block.
TestApiCollect(r, i) ==
    /\ requests[r].pc = "as_completed"
    /\ requests[r].futures[i].state = "FINISHED"
    /\ i \notin requests[r].yielded
    /\ requests' = [requests EXCEPT ![r] =
            IF requests[r].futures[i].exception # "none"
            THEN [@ EXCEPT !.yielded = @ \cup {i},
                           !.caught = requests[r].futures[i].exception,
                           !.pc = "shutdown"]
            ELSE [@ EXCEPT !.yielded = @ \cup {i},
                           !.responses = Append(@, requests[r].futures[i].result),
                           !.pc = IF AllYielded(requests[r].yielded \cup {i})
                                  THEN "shutdown" ELSE "as_completed"]]
    /\ UNCHANGED <<globals, server, clock, backend, loop>>

\* The end of the with block on the request's thread: shutdown(wait=True)
\* joins the workers, then fetch_all_locations returns its list to line
\* 324, or its exception leaves test_api.
TestApiShutdown(r) ==
    /\ requests[r].pc = "shutdown"
    /\ \A i \in Indices : requests[r].futures[i].state \notin {"PENDING", "RUNNING"}
    /\ requests' = [requests EXCEPT ![r] =
            IF requests[r].caught # "none" THEN ErrorReply ELSE [@ EXCEPT !.pc = "fetched"]]
    /\ UNCHANGED <<globals, server, clock, backend, loop>>

\* Mutant of TestApiMerge: all_vehicles and vehicle_ids of
\* process_all_responses are module-level containers shared by the runs,
\* and the request finds in them what the loop's merge left.
TestApiMergeShared(r) ==
    /\ requests[r].pc = "fetched"
    /\ LET shared == [MergeStart EXCEPT !.all_vehicles = vehicles,
                                        !.vehicle_ids = {vehicles[a].id : a \in 1..Len(vehicles)}]
           st == ProcessResponses(shared, requests[r].responses, 1)
       IN  requests' = [requests EXCEPT ![r] =
               IF st.exc # "none" THEN ErrorReply
               ELSE [@ EXCEPT !.pc = "merged", !.vehicles = st.all_vehicles]]
    /\ UNCHANGED <<globals, server, clock, backend, loop>>

\* test_api, line 325: vehicles = process_all_responses(responses).
TestApiMerge(r) ==
    /\ requests[r].pc = "fetched"
    /\ LET st == process_all_responses(requests[r].responses) IN
        requests' = [requests EXCEPT ![r] =
            IF st.exc # "none" THEN ErrorReply
            ELSE [@ EXCEPT !.pc = "merged", !.vehicles = st.all_vehicles]]
    /\ UNCHANGED <<globals, server, clock, backend, loop>>

\* test_api, lines 326-339: the reply of the live path.
TestApiReply(r) ==
    /\ requests[r].pc = "merged"
    /\ requests' = [requests EXCEPT ![r] =
            [@ EXCEPT !.pc = "replied",
                      !.reply = [status |-> 200,
                                 success |-> TRUE,
                                 mode |-> "REAL",
                                 vehicle_count |-> Len(requests[r].vehicles),
                                 locations_count |-> Len(LOCATIONS),
                                 success_locations |-> SuccessLocations(requests[r].responses),
                                 failed_locations |-> FailedLocations(requests[r].responses),
                                 vehicles_sample |-> SampleOf(requests[r].vehicles)]]]
    /\ UNCHANGED <<globals, server, clock, backend, loop>>

\* The reply was sent: the thread is free for the next request.
TestApiDone(r) ==
    /\ requests[r].pc \in {"replied", "error"}
    /\ requests' = [requests EXCEPT ![r] = NoRequest]
    /\ UNCHANGED <<globals, server, clock, backend, loop>>

\* The steps of request thread r and of the workers of its executor.
test_api(r) ==
    \/ \E rnd \in FakeDraws(Len(LOCATIONS)) : TestApiFake(r, rnd)
    \/ TestApiStart(r)
    \/ TestApiSubmit(r)
    \/ TestApiWorkerTake(r)
    \/ \E i \in Indices : \E upstream \in DemandUpstreams : TestApiWorkerFinish(r, i, upstream)
    \/ \E i \in Indices : TestApiCollect(r, i)
    \/ TestApiShutdown(r)
    \/ TestApiMerge(r)
    \/ TestApiReply(r)
    \/ TestApiDone(r)

\* The server with the loop and the request threads side by side: the
\* loop's thread was just started (line 371) and the main thread has not
\* reached socketio.run yet.
InitDemand ==
    /\ environ = FullEnviron
    /\ CONFIG = load_config(FullEnviron).config
    /\ TEST_MODE \in BOOLEAN
    /\ LOCATIONS = [i \in 1..DemandLocations |-> Location(i)]
    /\ events = <<>>
    /\ pc = "cycle_start"
    /\ futures = [i \in 1..Len(LOCATIONS) |-> NoFuture]
    /\ posts = [i \in 1..Len(LOCATIONS) |-> NoPost]
    /\ queue = <<>>
    /\ yielded = {}
    /\ all_responses = <<>>
    /\ vehicles = <<>>
    /\ snapshot = NoSnapshot
    /\ caught = "none"
    /\ clock = ClockAtZero
    /\ requests = NoRequests
    /\ server = "down"
    /\ backend = NoBackend

NextDemand ==
    \/ Serve
    \/ LoopStep
    \/ WorkerTake
    \/ \E i \in Indices : \E upstream \in DemandUpstreams : WorkerFinish(i, upstream)
    \/ \E r \in RequestThreads : test_api(r)

SpecDemand == InitDemand /\ [][NextDemand]_vars

\* ---------------------------------------------------- src/backend/app.py
\* The single-location server.  A finite float is a JNum (rounded); the
\* floats that are not finite are values of their own.
JInf == [t |-> "inf"]
JNaN == [t |-> "nan"]

\* float(x), lines 164-166 and 184-185, for the values the model sends: a
\* number, None, and the strings "inf", "nan" and one that is no number.
Float(x) ==
    IF IsExc(x) THEN x
    ELSE IF x.t \in {"num", "inf", "nan"} THEN x
    ELSE IF x.t = "str"
         THEN (IF x.s = "inf" THEN JInf ELSE IF x.s = "nan" THEN JNaN ELSE Exc("ValueError"))
    ELSE Exc("TypeError")

\* str(x), lines 163 and 167.
Str(x) ==
    IF x.t = "str" THEN x.s
    ELSE IF x.t = "num" THEN ToString(x.n)
    ELSE "None"

\* a - b on floats: inf - inf is nan (the model has no negative infinity
\* before a subtraction).
Sub(a, b) ==
    IF a.t = "nan" \/ b.t = "nan" THEN JNaN
    ELSE IF a.t = "inf" /\ b.t = "inf" THEN JNaN
    ELSE IF a.t = "inf" \/ b.t = "inf" THEN JInf
    ELSE JNum(a.n - b.n)

\* Lines 36-42: the category names of CATEGORY_CONFIG, by id.
CATEGORY_CONFIG ==
    << <<"13591", "Send Motorbike">>, <<"13592", "XL">>, <<"13593", "Bolt">>,
       <<"13595", "Motorbike">>, <<"13596", "City Ride">> >>

\* Lines 43-49.
CATEGORY_TARGET_COUNTS ==
    << <<"13591", 15>>, <<"13592", 5>>, <<"13593", 14>>, <<"13595", 3>>, <<"13596", 11>> >>

\* CATEGORY_CONFIG.get(category_id, {}).get("name", "Unknown").
ConfigName(category_id) ==
    IF \E c \in 1..Len(CATEGORY_CONFIG) : CATEGORY_CONFIG[c][1] = category_id
    THEN CATEGORY_CONFIG[CHOOSE c \in 1..Len(CATEGORY_CONFIG) : CATEGORY_CONFIG[c][1] = category_id][2]
    ELSE "Unknown"

\* Lines 64-78: the fallback vehicle idx of a category.  Its place is the
\* origin moved by a finite offset; the offset in longitude is divided by
\* cos(origin_lat), so it is nan when origin_lat is.  Its id is that of
\* line 70, f"{category_id}-{idx+1:03d}".
FallbackVehicle(category_id, idx, origin_lat, origin_lng) ==
    [id |-> category_id \o "-" \o (IF idx + 1 < 10 THEN "00" ELSE "0") \o ToString(idx + 1),
     lat |-> origin_lat,
     lng |-> IF origin_lat.t = "nan" THEN JNaN ELSE origin_lng,
     category_id |-> category_id,
     category_name |-> JStr(ConfigName(category_id)),
     icon_url |-> JNull]

\* Lines 60-79 from category c on.
RECURSIVE FallbackFrom(_, _, _)
FallbackFrom(c, origin_lat, origin_lng) ==
    IF c > Len(CATEGORY_TARGET_COUNTS) THEN <<>>
    ELSE [k \in 1..CATEGORY_TARGET_COUNTS[c][2] |->
            FallbackVehicle(CATEGORY_TARGET_COUNTS[c][1], k - 1, origin_lat, origin_lng)]
         \o FallbackFrom(c + 1, origin_lat, origin_lng)

\* build_fallback_vehicles, lines 51-80: line 67 takes
\* math.cos(math.radians(origin_lat)), a math domain error for an infinite
\* origin_lat.
build_fallback_vehicles(origin_lat, origin_lng) ==
    IF origin_lat.t = "inf" THEN [vehicles |-> <<>>, exception |-> "ValueError"]
    ELSE [vehicles |-> FallbackFrom(1, origin_lat, origin_lng), exception |-> "none"]

\* haversine_distance, lines 82-90, raises: math.sin or math.cos of an
\* infinite argument is a math domain error, and so is line 89 when the
\* floats of lines 86-88 add up to an a below 0 (math.sqrt(a)) or above 1
\* (math.sqrt(1 - a)).  The finite coordinates of the model are whole
\* degrees.  For whole degrees a leaves [0, 1] only when the longitudes
\* are an odd multiple of 180 apart, sin(d_lng / 2) ** 2 then being 1.0,
\* and the latitudes add up to a multiple of 180: across the pole from
\* each other the two points are the same point and a, 0 in exact
\* arithmetic, comes out below 0; at lat2 = -lat1 they are antipodes and
\* a, 1 in exact arithmetic, comes out above 1.  Which latitudes round that
\* way is a property of the floats; the tables list them for latitudes
\* from -360 to 360, by the sum of the two latitudes and the larger one.
\* The floats are the same when both latitudes change sign, and when the
\* two points change places.  Latitudes beyond 360 degrees are not among
\* the coordinates of the model.
HaversineRaises(lat1, lng1, lat2, lng2) ==
    \/ Sub(lat2, lat1).t = "inf"
    \/ Sub(lng2, lng1).t = "inf"
    \/ lat1.t = "inf"
    \/ lat2.t = "inf"
    \/ /\ {lat1.t, lng1.t, lat2.t, lng2.t} = {"num"}
       /\ (lng2.n - lng1.n) % 360 = 180
       /\ LET north == lat1.n + lat2.n >= 0
              la == IF north THEN lat1.n ELSE 0 - lat1.n
              lb == IF north THEN lat2.n ELSE 0 - lat2.n
              larger == IF la >= lb THEN la ELSE lb
          IN  \/ /\ la + lb = 0
                 /\ larger \in {8, 12, 82, 97, 102, 105, 121, 168, 187, 258, 264, 274, 278, 284,
                                324, 348}
              \/ /\ la + lb = 180
                 /\ larger \in {91, 92, 93, 95, 96, 100, 101, 102, 105, 110, 111, 114, 116, 118,
                                121, 125, 127, 130, 134, 135, 136, 143, 145, 150, 152, 153, 160,
                                161, 168, 203, 206, 208, 213, 215, 216, 217, 224, 226, 231, 233,
                                235, 238, 240, 242, 244, 249, 251, 253, 258, 260, 262, 267, 269,
                                272, 273, 275, 277, 279, 281, 284, 286, 290, 293, 295, 299, 301,
                                304, 308, 310, 311, 313, 317, 321, 323, 325, 329, 330, 334, 337,
                                343, 348, 352}
              \/ /\ la + lb = 360
                 /\ larger \in {214, 231, 235, 239, 244, 247, 248, 249, 262, 277, 278, 282, 290,
                                295, 299, 300, 304, 308, 309, 313, 317, 318, 322, 326, 327, 335,
                                336, 340, 345}
              \/ /\ la + lb = 540
                 /\ larger \in {272, 273, 274, 278, 281, 282, 283, 287, 290, 291, 292, 296, 297,
                                300, 301, 305, 309, 310, 313, 315, 317, 326, 328, 331, 333, 335,
                                336, 340, 341, 342, 353}

\* haversine_distance: a number, or nan when an argument is nan.
haversine_distance(lat1, lng1, lat2, lng2) ==
    IF "nan" \in {lat1.t, lng1.t, lat2.t, lng2.t} \/ Sub(lng2, lng1).t = "nan" THEN "nan"
    ELSE "num"

\* Lines 160-174: the Vehicle of one item, or the exception raised while
\* its fields are read.
BoltVehicle(item, category_id, details_by_category, lat, lng) ==
    LET details == Get(details_by_category, category_id, EmptyMap)
        id == Get(item, "id", JNull)
        vlat == Float(Get(item, "lat", lat))
        vlng == Float(Get(item, "lng", lng))
        bearing == Float(Get(item, "bearing", JNum(0)))
        name == Get(details, "name", JStr(ConfigName(category_id)))
        raised == SelectSeq(<<details, id, vlat, vlng, bearing, name>>, IsExc)
    IN  IF raised # <<>> THEN [vehicle |-> JNull, exception |-> raised[1].e]
        ELSE [vehicle |-> [id |-> Str(id), lat |-> vlat, lng |-> vlng,
                           category_id |-> category_id, category_name |-> name,
                           icon_url |-> Get(item, "icon_url", JNull)],
              exception |-> "none"]

\* Line 159: the items of one category, from item i on.
RECURSIVE BoltItems(_, _, _, _, _, _, _)
BoltItems(st, items, i, category_id, details_by_category, lat, lng) ==
    IF st.exception # "none" \/ i > Len(items) THEN st
    ELSE LET v == BoltVehicle(items[i], category_id, details_by_category, lat, lng) IN
         IF v.exception # "none" THEN [st EXCEPT !.exception = v.exception]
         ELSE BoltItems([st EXCEPT !.vehicles = Append(@, v.vehicle)], items, i + 1, category_id,
                        details_by_category, lat, lng)

\* Line 159: what "for item in items" hands out: the elements of a list,
\* the keys of a dict, the characters of a str.  Every character is a str,
\* and the first str handed out ends the loop (item.get of line 163), so a
\* str that is not empty hands out one str.
Iterated(items) ==
    IF items.t = "list" THEN items.l
    ELSE IF items.t = "map" THEN [k \in 1..Len(items.m) |-> JStr(items.m[k][1])]
    ELSE IF items.s = "" THEN <<>>
    ELSE <<JStr(items.s)>>

\* Line 158: the categories of one service, from category j on; iter(items)
\* of line 159 is defined for a list, a dict and a str, and None and a number
\* are not iterable (TypeError).
RECURSIVE BoltCategories(_, _, _, _, _, _)
BoltCategories(st, categories, j, details_by_category, lat, lng) ==
    IF st.exception # "none" \/ j > Len(categories) THEN st
    ELSE IF categories[j][2].t \notin {"list", "map", "str"}
         THEN [st EXCEPT !.exception = "TypeError"]
    ELSE BoltCategories(BoltItems(st, Iterated(categories[j][2]), 1, categories[j][1],
                                  details_by_category, lat, lng),
                        categories, j + 1, details_by_category, lat, lng)

\* Lines 156-157: the services of the payload, from service s on.
RECURSIVE BoltServices(_, _, _, _, _, _)
BoltServices(st, services, s, category_details, lat, lng) ==
    IF st.exception # "none" \/ s > Len(services) THEN st
    ELSE LET details_by_category == Get(category_details, services[s][1], EmptyMap) IN
         IF IsExc(details_by_category) THEN [st EXCEPT !.exception = details_by_category.e]
         ELSE IF services[s][2].t # "map" THEN [st EXCEPT !.exception = "AttributeError"]
         ELSE BoltServices(BoltCategories(st, services[s][2].m, 1, details_by_category, lat, lng),
                           services, s + 1, category_details, lat, lng)

\* Lines 150-175: the vehicles of a decoded payload.
BoltPayload(payload, lat, lng) ==
    LET vehicles_data == Get(payload, "vehicles", EmptyMap)
        category_details == Get(payload, "category_details", EmptyMap)
        st == [vehicles |-> <<>>, exception |-> "none"]
    IN  IF IsExc(vehicles_data) THEN [st EXCEPT !.exception = vehicles_data.e]
        ELSE IF vehicles_data.t # "map" THEN [st EXCEPT !.exception = "AttributeError"]
        ELSE BoltServices(st, vehicles_data.m, 1, category_details, lat, lng)

\* fetch_from_bolt, lines 92-175: what it returns (vehicles) or raises
\* (exception).  strict_json is the installed requests refusing to encode a
\* float that is not finite in the json= body of line 148.
fetch_from_bolt(bolt_token, strict_json, lat, lng, upstream) ==
    IF bolt_token = "" THEN [vehicles |-> <<>>, exception |-> "none"]
    ELSE IF strict_json /\ (lat.t # "num" \/ lng.t # "num")
         THEN [vehicles |-> <<>>, exception |-> "InvalidJSONError"]
    ELSE IF upstream.kind # "response" THEN [vehicles |-> <<>>, exception |-> upstream.kind]
    ELSE IF upstream.status_code >= 400 THEN [vehicles |-> <<>>, exception |-> "HTTPError"]
    ELSE IF upstream.body.t = "undecodable"
         THEN [vehicles |-> <<>>, exception |-> "JSONDecodeError"]
    ELSE BoltPayload(upstream.body, lat, lng)

\* Lines 205-218: the record of one vehicle.
Enriched(vehicle, lat, lng) ==
    [id |-> vehicle.id, lat |-> vehicle.lat, lng |-> vehicle.lng,
     category_id |-> vehicle.category_id, category_name |-> vehicle.category_name,
     icon_url |-> vehicle.icon_url,
     distance_km |-> haversine_distance(lat, lng, vehicle.lat, vehicle.lng)]

\* Lines 220-230: the count of each configured category.
CategoryCounts(vs) ==
    [c \in 1..Len(CATEGORY_CONFIG) |->
        [id |-> CATEGORY_CONFIG[c][1], name |-> CATEGORY_CONFIG[c][2],
         count |-> Cardinality({k \in 1..Len(vs) : vs[k].category_id = CATEGORY_CONFIG[c][1]})]]

\* An exception leaves get_vehicles: the server answers 500.
Raised(name) == [status |-> 500, exception |-> name]

\* request.data is empty.
NoData == [t |-> "nodata"]

\* get_vehicles, lines 181-243, for a request body and an upstream: the
\* response (nearest and last_update left out), or the exception that
\* leaves the handler.
get_vehicles(bolt_token, strict_json, data, upstream) ==
    LET body == IF data = NoData THEN EmptyMap ELSE data
        lat == Float(Get(body, "lat", JNum(18)))
        lng == Float(Get(body, "lng", JNum(98)))
    IN  IF IsExc(lat) THEN Raised(lat.e)
        ELSE IF IsExc(lng) THEN Raised(lng.e)
        ELSE LET fetched == fetch_from_bolt(bolt_token, strict_json, lat, lng, upstream)
                 \* Lines 190-194: an exception of the call leaves the list empty.
                 live_vehicles == IF fetched.exception # "none" THEN <<>> ELSE fetched.vehicles
                 fallback == build_fallback_vehicles(lat, lng)
                 used_live_data == live_vehicles # <<>>
                 served == IF used_live_data THEN live_vehicles ELSE fallback.vehicles
             IN  IF ~used_live_data /\ fallback.exception # "none"
                 THEN Raised(fallback.exception)
                 ELSE IF \E k \in 1..Len(served) :
                            HaversineRaises(lat, lng, served[k].lat, served[k].lng)
                      THEN Raised("ValueError")
                 ELSE [status |-> 200,
                       vehicles |-> [k \in 1..Len(served) |-> Enriched(served[k], lat, lng)],
                       categories |-> CategoryCounts(served),
                       stats |-> [total |-> Len(served),
                                  connection |-> IF used_live_data THEN "connected" ELSE "offline"],
                       poll_interval_sec |-> 2]

\* The payloads the upstream of the single-location server answers with.
BoltOne ==
    JMap(<< <<"vehicles", JMap(<< <<"taxi", JMap(<< <<"13593",
                JList(<<Car(JStr("a1"), JNum(18), JNum(98))>>)>> >>)>> >>)>>,
            <<"category_details", JMap(<< <<"taxi", JMap(<< <<"13593",
                JMap(<< <<"name", JStr("Bolt")>> >>)>> >>)>> >>)>> >>)
\* One category whose value is `items` instead of a list of cars, then a
\* category with a car.
BoltCategoryThenCar(items) ==
    JMap(<< <<"vehicles", JMap(<< <<"taxi", JMap(<<
                <<"13593", items>>,
                <<"99", JList(<<Car(JStr("b2"), JNum(18), JNum(98))>>)>> >>)>> >>)>> >>)

\* What the upstream does for the call of line 148.
BackendUpstreams ==
    {RaisesTimeout, Response(500, Undecodable), Response(200, Undecodable),
     Response(204, Undecodable), Response(200, EmptyMap),
     Response(200, JMap(<< <<"vehicles", JMap(<< <<"taxi", JMap(<< <<"13593", JList(<<>>)>> >>)>> >>)>> >>)),
     Response(200, BoltOne),
     Response(200, BoltCategoryThenCar(JList(<<JMap(<< <<"id", JStr("a1")>>, <<"lng", JNum(98)>> >>)>>))),
     Response(200, BoltCategoryThenCar(JList(<<Car(JStr("a1"), JNull, JNum(98))>>))),
     Response(200, PayloadNotMap),
     Response(200, BoltCategoryThenCar(JList(<<Car(JStr("c3"), JNum(82), JNum(0))>>))),
     Response(200, BoltCategoryThenCar(EmptyMap)),
     Response(200, BoltCategoryThenCar(JMap(<< <<"k", JNum(1)>> >>))),
     Response(200, BoltCategoryThenCar(JStr("ab"))),
     Response(200, BoltCategoryThenCar(JStr(""))),
     Response(200, BoltCategoryThenCar(JNull)),
     Response(200, BoltCategoryThenCar(JNum(7)))}

\* The request bodies sent to /api/vehicles.
RequestBodies ==
    {NoData, EmptyMap,
     JMap(<< <<"lat", JNum(19)>>, <<"lng", JNum(99)>> >>),
     JMap(<< <<"lat", JNum(0 - 82)>>, <<"lng", JNum(0 - 180)>> >>),
     JMap(<< <<"lat", JNum(0 - 81)>>, <<"lng", JNum(0 - 180)>> >>),
     JMap(<< <<"lat", JNum(0 - 262)>>, <<"lng", JNum(540)>> >>),
     JMap(<< <<"lat", JStr("inf")>> >>),
     JMap(<< <<"lng", JStr("inf")>> >>),
     JMap(<< <<"lat", JStr("nan")>> >>),
     JMap(<< <<"lat", JStr("abc")>> >>),
     JList(<<JNum(1)>>)}

\* A request thread of the server takes a POST /api/vehicles: lines 183-187
\* read the request, and fetch_from_bolt runs up to requests.post of line
\* 148, where the thread waits for the upstream.  The handler is through
\* without a wait when float raises, when the token is empty (line 93) and
\* when requests refuses to encode the body.
GetVehiclesBegin(t, data) ==
    /\ backend.calls[t].pc = "idle"
    /\ LET body == IF data = NoData THEN EmptyMap ELSE data
           lat == Float(Get(body, "lat", JNum(18)))
           lng == Float(Get(body, "lng", JNum(98)))
           waits == /\ ~IsExc(lat)
                    /\ ~IsExc(lng)
                    /\ backend.bolt_token # ""
                    /\ ~(backend.strict_json /\ (lat.t # "num" \/ lng.t # "num"))
       IN  backend' = [backend EXCEPT !.calls[t] =
               IF waits THEN [pc |-> "post", data |-> data]
               ELSE [pc |-> "done", data |-> data, upstream |-> NoPost,
                     response |-> get_vehicles(backend.bolt_token, backend.strict_json,
                                               data, NoPost)]]
    /\ UNCHANGED <<globals, server, clock, requests, loop>>

\* requests.post of line 148 returns or raises on thread t, and the handler
\* runs to its end, lines 149-243.
GetVehiclesReturn(t, upstream) ==
    /\ backend.calls[t].pc = "post"
    /\ backend' = [backend EXCEPT !.calls[t] =
            [pc |-> "done", data |-> backend.calls[t].data, upstream |-> upstream,
             response |-> get_vehicles(backend.bolt_token, backend.strict_json,
                                       backend.calls[t].data, upstream)]]
    /\ UNCHANGED <<globals, server, clock, requests, loop>>

\* The response was sent: the thread is free for the next request.
GetVehiclesDone(t) ==
    /\ backend.calls[t].pc = "done"
    /\ backend' = [backend EXCEPT !.calls[t] = [pc |-> "idle"]]
    /\ UNCHANGED <<globals, server, clock, requests, loop>>

\* create_app, lines 14-24: the token comes from the environment (it is
\* empty when BOLT_TOKEN is set to nothing); src/app.py does not run.
InitBackend ==
    /\ environ = EmptyMap
    /\ CONFIG = JNull
    /\ TEST_MODE = FALSE
    /\ LOCATIONS = <<>>
    /\ events = <<>>
    /\ pc = "exit"
    /\ futures = <<>>
    /\ posts = <<>>
    /\ queue = <<>>
    /\ yielded = {}
    /\ all_responses = <<>>
    /\ vehicles = <<>>
    /\ snapshot = NoSnapshot
    /\ caught = "none"
    /\ clock = ClockAtZero
    /\ requests = NoRequests
    /\ server = "down"
    /\ backend \in {[bolt_token |-> token, strict_json |-> strict,
                      calls |-> [t \in RequestThreads |-> [pc |-> "idle"]]] :
                        token \in {"", "token"}, strict \in BOOLEAN}

NextBackend ==
    \E t \in RequestThreads :
        \/ \E data \in RequestBodies : GetVehiclesBegin(t, data)
        \/ \E upstream \in BackendUpstreams : GetVehiclesReturn(t, upstream)
        \/ GetVehiclesDone(t)

SpecBackend == InitBackend /\ [][NextBackend]_vars

\* ================================================================ claims
NameOf(i) == Item(LOCATIONS[i], "name").s

\* fetch_all_locations has returned its list to the loop (it is not called
\* with TEST_MODE on).
FetchReturned == ~TEST_MODE /\ pc \in {"merge", "emit", "sleep"}

\* The results that fetch_single_location built in its except clause.
RaisedInside(result) ==
    /\ "error" \in DOMAIN result
    /\ result.error \in {"Read timed out", "Connection refused", "Expecting value", "'lat'", "'lng'"}

\* C1 - Completeness: when fetch_all_locations has returned, its list has
\* exactly one result for each configured location, whatever the upstream
\* did for each of them, and no result for any other location.
C1_Completeness ==
    FetchReturned =>
        /\ Len(all_responses) = Len(LOCATIONS)
        /\ \A i \in Indices :
            Cardinality({j \in 1..Len(all_responses) : all_responses[j].location = NameOf(i)}) = 1
        /\ \A j \in 1..Len(all_responses) :
            \E i \in Indices : all_responses[j].location = NameOf(i)

\* Witness of C1: a returned list that mixes a 200, a non-200 status and a
\* timeout.
C1_Witness ==
    /\ pc = "merge"
    /\ \E j \in 1..Len(all_responses) : all_responses[j].success
    /\ \E j \in 1..Len(all_responses) :
        ~all_responses[j].success /\ all_responses[j].error = "Status 500"
    /\ \E j \in 1..Len(all_responses) :
        ~all_responses[j].success /\ all_responses[j].error = "Read timed out"

\* C2 - Bounded fan-out: at no time are more than MAX_WORKERS locations in
\* flight; a queued location is started only into a free slot, so with
\* more locations than workers the rest waits in the queue.
C2_BoundedFanOut ==
    /\ Cardinality(InFlight) <= MAX_WORKERS
    /\ \A k \in 1..Len(queue) : futures[queue[k]].state = "PENDING"

\* Witness of C2: every worker is busy and a location still waits.
C2_Witness == Cardinality(InFlight) = MAX_WORKERS /\ queue # <<>>

\* C3 - Join barrier: while the loop merges or publishes, every location
\* of the cycle has been dispatched and has finished; none is queued or in
\* flight.
C3_JoinBarrier ==
    ~TEST_MODE /\ pc \in {"merge", "emit"} =>
        /\ Queued = {}
        /\ InFlight = {}
        /\ Finished = Indices

\* Witness of C3: the merge is about to run after a fan-out in which
\* locations had to queue.
C3_Witness ==
    pc = "merge" /\ Finished = Indices /\ Len(LOCATIONS) > MAX_WORKERS

\* C4 - Crash isolation: a unit whose execution raised holds a result with
\* success false for its own location and no exception; the exception
\* never reaches fetch_all_locations, whose list still has the result of
\* every sibling.
C4_CrashIsolation ==
    /\ \A i \in Finished :
        /\ futures[i].exception = "none"
        /\ futures[i].result.location = NameOf(i)
        /\ RaisedInside(futures[i].result) =>
            ~futures[i].result.success /\ futures[i].result.data = JNull
    /\ ~TEST_MODE /\ pc \in {"shutdown", "except"} => yielded = Indices
    /\ FetchReturned =>
        \A i \in Indices : \E j \in 1..Len(all_responses) : all_responses[j] = futures[i].result

\* Witness of C4: the list returned holds the failure of a unit that timed
\* out, the failure of the invalid location record, and a successful
\* sibling that finished after the timeout was collected first.
C4_Witness ==
    /\ pc = "merge"
    /\ Len(all_responses) > 0
    /\ all_responses[1].success = FALSE
    /\ all_responses[1].error = "Read timed out"
    /\ \E j \in 1..Len(all_responses) : all_responses[j].success
    /\ \E j \in 1..Len(all_responses) :
        ~all_responses[j].success /\ all_responses[j].error = "'lat'"

\* ------------------------------------------- the raw records of a batch
\* The items of the taxi table of a result's payload (none for a failed
\* result, an empty body, or a payload without such a table).
TaxiItemsOf(response) ==
    IF ~response.success \/ ~Truthy(response.data) THEN <<>>
    ELSE LET tv == Get(Get(Get(response.data, "data", EmptyMap), "vehicles", EmptyMap),
                       "taxi", EmptyMap)
         IN  IF tv.t = "map" THEN tv.m ELSE <<>>

CarsOf(response, j) ==
    LET cars == TaxiItemsOf(response)[j][2] IN IF cars.t = "list" THEN cars.l ELSE <<>>

\* Every raw vehicle record of the batch, as <<result, category, place>>.
RawRecords(responses) ==
    UNION { UNION { { <<k, j, i>> : i \in {h \in 1..Len(CarsOf(responses[k], j)) :
                                             CarsOf(responses[k], j)[h].t = "map"} } :
                    j \in 1..Len(TaxiItemsOf(responses[k])) } :
            k \in 1..Len(responses) }

RawCar(responses, o) == CarsOf(responses[o[1]], o[2])[o[3]]
RawId(responses, o) == Get(RawCar(responses, o), "id", JNull)
RawLat(responses, o) == Get(RawCar(responses, o), "lat", JNull)
RawLng(responses, o) == Get(RawCar(responses, o), "lng", JNull)

\* o1 is read before o2 in processing order.
Earlier(o1, o2) ==
    \/ o1[1] < o2[1]
    \/ o1[1] = o2[1] /\ o1[2] < o2[2]
    \/ o1[1] = o2[1] /\ o1[2] = o2[2] /\ o1[3] < o2[3]

\* The record is the first one of the batch with its id.
FirstOfItsId(responses, o) ==
    \A o2 \in RawRecords(responses) :
        Earlier(o2, o) => RawId(responses, o2) # RawId(responses, o)

\* lat and lng are present, not null and not zero.
CoordsUsable(responses, o) ==
    /\ RawLat(responses, o).t = "num" /\ RawLat(responses, o).n # 0
    /\ RawLng(responses, o).t = "num" /\ RawLng(responses, o).n # 0

OutputIds(vs) == {vs[a].id : a \in 1..Len(vs)}

\* The vehicle of the output that was built from raw record o.
BuiltFrom(responses, v, o) ==
    /\ v.id = RawId(responses, o)
    /\ v.lat = RawLat(responses, o)
    /\ v.lng = RawLng(responses, o)
    /\ v.category_id = TaxiItemsOf(responses[o[1]])[o[2]][1]
    /\ v.source_location = responses[o[1]].location

\* process_all_responses has returned its list to the loop.
MergeReturned == pc = "emit"

\* C5 - Dedup uniqueness: the list process_all_responses returns has no two
\* entries with the same id.
C5_DedupUnique ==
    MergeReturned =>
        \A a, b \in 1..Len(vehicles) : a # b => vehicles[a].id # vehicles[b].id

\* Witness of C5: a returned list for a batch in which one id is reported
\* by two locations and one id by two categories of the same payload.
C5_Witness ==
    /\ MergeReturned
    /\ \E o1, o2 \in RawRecords(all_responses) :
        /\ o1[1] # o2[1]
        /\ RawId(all_responses, o1) = RawId(all_responses, o2)
        /\ RawId(all_responses, o1) \in OutputIds(vehicles)
    /\ \E o1, o2 \in RawRecords(all_responses) :
        /\ o1[1] = o2[1] /\ o1[2] # o2[2]
        /\ RawId(all_responses, o1) = RawId(all_responses, o2)
        /\ RawId(all_responses, o1) \in OutputIds(vehicles)

\* C6 - Exactly one duplicate survives (the claim as stated): every id that
\* occurs in a record with usable lat and lng of a successful result is the
\* id of exactly one vehicle of the output, whatever other records carry
\* that id.
C6_ExactlyOneSurvives ==
    MergeReturned =>
        \A o \in RawRecords(all_responses) :
            CoordsUsable(all_responses, o) =>
                Cardinality({a \in 1..Len(vehicles) :
                                vehicles[a].id = RawId(all_responses, o)}) = 1

\* The processing orders of a batch of n results.
Orders(n) == {f \in [1..n -> 1..n] : \A a, b \in 1..n : a # b => f[a] # f[b]}

\* C7 - Order independence (the claim as stated): every processing order
\* of the batch yields an output with the same set of vehicle ids.
C7_OrderIndependent ==
    MergeReturned =>
        \A f \in Orders(Len(all_responses)) :
            LET st == process_all_responses([k \in 1..Len(all_responses) |-> all_responses[f[k]]])
            IN  st.exc = "none" /\ OutputIds(st.all_vehicles) = OutputIds(vehicles)

\* C8 - Validity filter (the claim as stated): every vehicle of the output
\* has lat and lng present, not null and not zero; no vehicle is built from
\* a raw record whose lat or lng is null or missing; and a record with
\* usable coordinates whose payload also holds a record that is dropped is
\* still included: the output has a vehicle with its id.
C8_ValidityFilter ==
    MergeReturned =>
        /\ \A a \in 1..Len(vehicles) :
            /\ vehicles[a].lat.t = "num" /\ vehicles[a].lat.n # 0
            /\ vehicles[a].lng.t = "num" /\ vehicles[a].lng.n # 0
        /\ \A o \in RawRecords(all_responses) :
            ~CoordsUsable(all_responses, o) =>
                \A a \in 1..Len(vehicles) : ~BuiltFrom(all_responses, vehicles[a], o)
        /\ \A o1, o2 \in RawRecords(all_responses) :
            (o1[1] = o2[1] /\ ~CoordsUsable(all_responses, o1) /\ CoordsUsable(all_responses, o2))
                => RawId(all_responses, o2) \in OutputIds(vehicles)

\* The results of the batch that have success true, in order.
Successful(responses) == SelectSeq(responses, LAMBDA r : r.success)

\* C9 - Failure isolation in the merge: the output for a batch is the
\* output for its successful results alone, and no vehicle comes from a
\* failed result.
C9_FailureIsolation ==
    MergeReturned =>
        /\ process_all_responses(Successful(all_responses)).exc = "none"
        /\ vehicles = process_all_responses(Successful(all_responses)).all_vehicles
        /\ \A k \in 1..Len(all_responses) :
            ~all_responses[k].success =>
                \A a \in 1..Len(vehicles) : vehicles[a].source_location # all_responses[k].location

\* Witness of C9: a failed result stands between two successful ones, and
\* vehicles of the result before it and of the result after it are in the
\* output.
C9_Witness ==
    /\ MergeReturned
    /\ Len(all_responses) = 3
    /\ ~all_responses[2].success
    /\ \E a \in 1..Len(vehicles) : vehicles[a].source_location = all_responses[1].location
    /\ \E a \in 1..Len(vehicles) : vehicles[a].source_location = all_responses[3].location

\* C10 - Merge absorbs shape errors (the claim as stated): no exception
\* leaves process_all_responses, and a result with a malformed payload
\* contributes no vehicle.
C10_MergeAbsorbsShapeErrors ==
    /\ pc # "except"
    /\ MergeReturned =>
        \A k \in 1..Len(all_responses) :
            all_responses[k].data \in MalformedPayloads =>
                \A a \in 1..Len(vehicles) : vehicles[a].source_location # all_responses[k].location

\* --------------------------------------------------- the loop's cadence
\* The iteration has been left through the except clause.
CycleFailed == pc = "except"

\* The loop stands at the top of "while True" after its pause.
AtLoopTop == pc = "cycle_start"

\* The last thing the current iteration did.
LastEvent == IF events = <<>> THEN "none" ELSE events[Len(events)]

\* A new iteration has just entered the try block.
CycleJustStarted == pc \notin {"load_config", "main", "exit", "cycle_start"} /\ events = <<"start">>

\* C11 - Cadence resilience: an iteration whose fetch, merge or publish
\* raised leads to the top of the loop again after the pause of the except
\* clause, from the top of the loop a new iteration always starts, and the
\* thread never ends once the loop runs.
C11_CadenceResilience ==
    /\ CycleFailed ~> (AtLoopTop /\ LastEvent = "sleep")
    /\ AtLoopTop ~> CycleJustStarted
    /\ [](pc = "exit" => events = <<>>)

\* Witness of C11: the loop is back at its top after an iteration whose
\* merge raised on a malformed payload.
C11_Witness ==
    /\ AtLoopTop
    /\ caught = "AttributeError"
    /\ events = <<"start", "error", "sleep">>

\* No fetch unit is queued or in flight.
FanOutIdle == Queued = {} /\ InFlight = {}

\* The step enters a new iteration: its try block starts with a fresh
\* fan-out (or, in test mode, fresh vehicles).
BeginsCycle ==
    /\ pc' # pc
    /\ pc' \in {"submit", "merge", "emit", "except"}
    /\ events' = <<"start">>
    /\ \A i \in Indices : futures'[i] = NoFuture

\* C12 - Cycles never overlap: fetch units are queued or in flight only
\* while the loop is inside fetch_all_locations, and an iteration begins
\* only from the top of the loop, with no unit of the previous iteration
\* queued or in flight and the previous iteration (if any) ended by its
\* pause, after its publish or its error.
C12_CyclesNeverOverlap ==
    /\ [](pc \notin {"submit", "as_completed", "shutdown"} => FanOutIdle)
    /\ [][BeginsCycle =>
            /\ pc = "cycle_start"
            /\ FanOutIdle
            /\ events = <<>> \/ LastEvent = "sleep"]_vars

\* Witness of C12: an iteration whose units had to queue for a worker has
\* published and paused, every unit is finished, and the loop is about to
\* begin the next iteration.
C12_Witness ==
    /\ AtLoopTop
    /\ events = <<"start", "merged", "emit", "sleep">>
    /\ Len(LOCATIONS) > MAX_WORKERS
    /\ Finished = Indices

\* ------------------------------------------------ first processed wins
\* Every field of the vehicle is the one of raw record o, in the category
\* that holds it.
CopiedFrom(responses, v, o) ==
    /\ BuiltFrom(responses, v, o)
    /\ v.bearing = Get(RawCar(responses, o), "bearing", JNum(0))

\* The batch of the scenario: A = {v1, v2} at position a, B = {v2, v3} with
\* other v2 coordinates at position b, and a failed result at position c.
ScenarioAt(responses, a, b, c) ==
    /\ Len(responses) = 3
    /\ {a, b, c} = {1, 2, 3}
    /\ responses[a].success /\ responses[a].data = PayloadA
    /\ responses[b].success /\ responses[b].data = PayloadB
    /\ ~responses[c].success

\* The vehicle of the list with the given id (the list has one).
VehicleWithId(vs, id) == vs[CHOOSE k \in 1..Len(vs) : vs[k].id = JStr(id)]

\* C13 - First processed wins: every vehicle of the output carries the lat,
\* lng, bearing, category and source location of the first raw record with
\* its id in processing order, the source location being that of the result
\* holding the record.  For A = {v1, v2}, B = {v2, v3}, C failed, in any
\* order: the output is exactly v1, v2, v3, v2 has the coordinates and the
\* location of the first of A and B, 2 results count as successful and 1
\* as failed, and the failed locations published are exactly [C].
C13_FirstProcessedWins ==
    pc \in {"emit", "sleep"} =>
        /\ \A k \in 1..Len(vehicles) :
            \E o \in RawRecords(all_responses) :
                FirstOfItsId(all_responses, o) /\ CopiedFrom(all_responses, vehicles[k], o)
        /\ \A a, b, c \in 1..3 :
            ScenarioAt(all_responses, a, b, c) =>
                /\ Len(vehicles) = 3
                /\ OutputIds(vehicles) = {JStr("v1"), JStr("v2"), JStr("v3")}
                /\ VehicleWithId(vehicles, "v2").source_location
                       = all_responses[IF a < b THEN a ELSE b].location
                /\ VehicleWithId(vehicles, "v2").lat = IF a < b THEN JNum(11) ELSE JNum(12)
                /\ VehicleWithId(vehicles, "v2").lng = IF a < b THEN JNum(21) ELSE JNum(22)
                /\ process_all_responses(all_responses).success_count = 2
                /\ process_all_responses(all_responses).fail_count = 1
                /\ SuccessLocations(all_responses)
                       = <<all_responses[IF a < b THEN a ELSE b].location,
                           all_responses[IF a < b THEN b ELSE a].location>>
                /\ FailedLocations(all_responses) = <<all_responses[c].location>>
                /\ pc = "sleep" =>
                       snapshot.failed_locations = <<all_responses[c].location>>

\* Witness of C13: the scenario with B processed first, the failed result
\* second and A last has been merged and published; v2 is the one of B.
C13_Witness ==
    /\ pc = "sleep"
    /\ ScenarioAt(all_responses, 3, 1, 2)
    /\ VehicleWithId(vehicles, "v2").lat = JNum(12)
    /\ VehicleWithId(vehicles, "v2").source_location = all_responses[1].location
    /\ snapshot.failed_locations = <<all_responses[2].location>>

\* ------------------------------------------------- the upstream client
\* The calls that got an HTTP response and have returned.
Answered == {i \in Finished : posts[i].kind = "response" /\ futures[i].exception = "none"}

Is2xx(status_code) == status_code >= 200 /\ status_code <= 299

\* C14 - Status mapping (the claim as stated): a response with a 2xx status
\* and a body that decodes gives success true with the decoded body as it
\* is for payload; a response with any other status gives success false
\* with an error recorded.
C14_StatusMapping ==
    \A i \in Answered :
        /\ Is2xx(posts[i].status_code) /\ posts[i].body # Undecodable =>
            /\ futures[i].result.success
            /\ futures[i].result.data = posts[i].body
        /\ ~Is2xx(posts[i].status_code) =>
            /\ ~futures[i].result.success
            /\ "error" \in DOMAIN futures[i].result

\* C15 - FetchResult shape (the claim as stated): a result with success
\* true has a payload that is not null and no error; a result with success
\* false has a null payload and an error.
C15_ResultShape ==
    \A i \in Finished :
        futures[i].exception = "none" =>
            IF futures[i].result.success
            THEN futures[i].result.data # JNull /\ "error" \notin DOMAIN futures[i].result
            ELSE futures[i].result.data = JNull /\ "error" \in DOMAIN futures[i].result

\* -------------------------------------------------------- the snapshot
\* How often the name occurs in the list of names.
Occurrences(names, name) == Cardinality({k \in 1..Len(names) : names[k] = name})

\* C16 - Snapshot accounting (the claim as stated): every published
\* snapshot, with TEST_MODE off or on, has count = len(vehicles),
\* locations_count = len(LOCATIONS), and success_locations and
\* failed_locations that hold every configured location exactly once
\* between them, so that their lengths add up to locations_count.
C16_SnapshotAccounting ==
    snapshot.emitted =>
        /\ snapshot.count = Len(snapshot.vehicles)
        /\ snapshot.locations_count = Len(LOCATIONS)
        /\ \A i \in Indices :
            Occurrences(snapshot.success_locations \o snapshot.failed_locations, NameOf(i)) = 1
        /\ Len(snapshot.success_locations) + Len(snapshot.failed_locations)
               = snapshot.locations_count

\* -------------------------------------------------------- configuration
\* Every required variable is defined in the environment and not empty.
RequiredSet(env) ==
    \A k \in 1..Len(required_vars) :
        /\ HasKey(env, required_vars[k])
        /\ Lookup(env, required_vars[k]) # JStr("")

\* C17 - Configuration failure is fatal before the loop: with a required
\* variable missing or empty, load_config raises RuntimeError during
\* import and the process ends there; no iteration starts, no fetch unit
\* is submitted, no request is posted and no snapshot is published.  Past
\* load_config every required variable is set, and CONFIG holds it.
C17_ConfigFatal ==
    /\ ~RequiredSet(environ) =>
        /\ pc \in {"load_config", "exit"}
        /\ pc = "exit" => caught = "RuntimeError"
        /\ CONFIG = JNull
        /\ events = <<>>
        /\ Submitted = {}
        /\ \A i \in Indices : posts[i] = NoPost
        /\ ~snapshot.emitted
    /\ pc \notin {"load_config", "exit"} =>
        /\ RequiredSet(environ)
        /\ \A k \in 1..Len(required_vars) :
            Get(CONFIG, required_vars[k], JNull) = Lookup(environ, required_vars[k])

\* Witness of C17: the process has ended in load_config because
\* BOLT_BEARER_TOKEN is defined but empty.
C17_Witness ==
    /\ pc = "exit"
    /\ caught = "RuntimeError"
    /\ HasKey(environ, "BOLT_BEARER_TOKEN")
    /\ Lookup(environ, "BOLT_BEARER_TOKEN") = JStr("")

\* ------------------------------------------------- records without id
\* C18 - Per-record malformation drops only that record (the claim as
\* stated): no vehicle of the output comes from a raw record whose id is
\* absent or null, so no vehicle has a null id; the result holding such a
\* record still counts as successful; and its sibling records with an id
\* and usable coordinates are still extracted.
C18_MissingIdDropped ==
    MergeReturned =>
        /\ \A a \in 1..Len(vehicles) : vehicles[a].id # JNull
        /\ \A o \in RawRecords(all_responses) :
            RawId(all_responses, o) = JNull =>
                /\ \A a \in 1..Len(vehicles) : ~BuiltFrom(all_responses, vehicles[a], o)
                /\ all_responses[o[1]].location \in
                       {SuccessLocations(all_responses)[k] :
                            k \in 1..Len(SuccessLocations(all_responses))}
                /\ \A o2 \in RawRecords(all_responses) :
                    /\ o2[1] = o[1]
                    /\ RawId(all_responses, o2) # JNull
                    /\ CoordsUsable(all_responses, o2)
                    /\ FirstOfItsId(all_responses, o2)
                    => \E a \in 1..Len(vehicles) : BuiltFrom(all_responses, vehicles[a], o2)

\* ------------------------------------------------ the events of a cycle
\* How often the current iteration has done e.
Count(e) == Cardinality({k \in 1..Len(events) : events[k] = e})

\* The place of the first e among the events of the iteration (0: none).
PlaceOf(e) ==
    IF Count(e) = 0 THEN 0 ELSE CHOOSE k \in 1..Len(events) :
        events[k] = e /\ \A j \in 1..(k - 1) : events[j] # e

\* The iteration is over: the loop is back at its top.
CycleOver == AtLoopTop /\ events # <<>>

\* C19 - Per-cycle event order: an iteration sleeps FETCH_INTERVAL exactly
\* once, as the last thing it does, and publishes at most one snapshot; an
\* iteration without error merges (live path), then publishes, then
\* sleeps; an iteration whose fetch or merge raised publishes nothing and
\* still sleeps once.
C19_EventOrder ==
    /\ Count("emit") <= 1
    /\ Count("sleep") = (IF CycleOver THEN 1 ELSE 0)
    /\ CycleOver => LastEvent = "sleep"
    /\ snapshot.emitted <=> Count("emit") = 1
    /\ Count("emit") = 1 =>
        /\ Count("error") = 0
        /\ ~TEST_MODE => PlaceOf("merged") > 0 /\ PlaceOf("merged") < PlaceOf("emit")
        /\ CycleOver => PlaceOf("emit") < PlaceOf("sleep")
    /\ CycleOver /\ Count("error") = 0 =>
        events = IF TEST_MODE THEN <<"start", "emit", "sleep">>
                 ELSE <<"start", "merged", "emit", "sleep">>
    /\ Count("error") = 1 =>
        /\ pc = "except_sleep" \/ CycleOver
        /\ Count("emit") = 0
        /\ ~snapshot.emitted
        /\ Count("emit_raised") = 0 =>
            events = IF CycleOver THEN <<"start", "error", "sleep">> ELSE <<"start", "error">>

\* Witness of C19: an iteration whose fetch raised (the test-mode generator
\* met a location record without "lat") is over: nothing was published
\* and the loop slept once.
C19_Witness ==
    /\ CycleOver
    /\ TEST_MODE
    /\ caught = "KeyError"
    /\ ~snapshot.emitted
    /\ Count("sleep") = 1

\* ------------------------------------------- termination of the fan-out
\* fetch_all_locations has returned a result for every location.
FanOutReturned == pc = "merge" /\ Len(all_responses) = Len(LOCATIONS)

\* C20 - Termination of the fan-out: given that every upstream call
\* finishes, each live iteration that starts gets its list back from
\* fetch_all_locations, for every number of locations from 0 on; every
\* queued location obtains a worker; and whenever a location waits while
\* fewer than MAX_WORKERS calls run, a worker can take it, however long the
\* running calls take.
C20_FanOutTerminates ==
    /\ (AtLoopTop /\ ~TEST_MODE) ~> FanOutReturned
    /\ \A i \in 1..NumLocations : (i \in Queued) ~> (i \in InFlight)
    /\ [](queue # <<>> /\ Cardinality(InFlight) < MAX_WORKERS => ENABLED WorkerTake)

\* Witness of C20: a location that had to queue has obtained a worker and
\* finished, while a call started before it is still in flight.
C20_Witness ==
    /\ pc = "as_completed"
    /\ \E i \in InFlight : i <= MAX_WORKERS
    /\ \E j \in Finished : j > MAX_WORKERS

\* The rounds n calls of one unit each take on MAX_WORKERS workers.
Rounds(n) == (n + MAX_WORKERS - 1) \div MAX_WORKERS

\* The round the i-th submitted call belongs to, counted from 0.
RoundOf(i) == (i - 1) \div MAX_WORKERS

\* C21 (work-conserving pool): with calls of one unit of time each, the
\* i-th submitted call begins as soon as a worker is free for it, that is,
\* when the rounds of MAX_WORKERS calls before it are over, no worker being
\* idle for a unit of time while a location is queued; and
\* fetch_all_locations returns after ceil(n / MAX_WORKERS) units for n
\* locations (3 units for 5 locations on 2 workers), neither after n units
\* nor after 1 unit when n exceeds MAX_WORKERS.
C21_WorkConservingPool ==
    /\ \A i \in InFlight \cup Finished : clock.started[i] = RoundOf(i)
    /\ \A i \in Queued : clock.now <= RoundOf(i)
    /\ pc = "merge" => clock.now = Rounds(Len(LOCATIONS))

\* 5 locations on 2 workers: more rounds than one, fewer than locations.
C21_Witness ==
    /\ pc = "merge"
    /\ Len(all_responses) = Len(LOCATIONS)
    /\ Len(LOCATIONS) = PoolLocations
    /\ clock.now > 1
    /\ clock.now < Len(LOCATIONS)
    /\ clock.now = Rounds(PoolLocations)

\* ------------------------------------------------------------ provenance
\* The names in a list of location names.
Names(list) == {list[k] : k \in 1..Len(list)}

\* The body the upstream sent for location i, read as a payload.
BodySent(i) ==
    [location |-> NameOf(i),
     data |-> IF posts[i].kind = "response" /\ posts[i].body.t = "map" THEN posts[i].body ELSE JNull,
     success |-> TRUE]

\* The vehicle repeats id and coordinates of a record of the body sent for
\* location i.
FromBodyOf(i, v) ==
    \E o \in RawRecords(<<BodySent(i)>>) :
        /\ v.id = RawId(<<BodySent(i)>>, o)
        /\ v.lat = RawLat(<<BodySent(i)>>, o)
        /\ v.lng = RawLng(<<BodySent(i)>>, o)

\* C23 (provenance): in every snapshot published on the live path the
\* source_location of each vehicle is listed in success_locations and not in
\* failed_locations, each vehicle repeats a record of the body its source
\* location received, and a location listed in failed_locations contributes
\* no vehicle: none names it as its source, and none repeats a record of the
\* body that came with its failure (the error bodies of LiveUpstreams carry
\* records that no successful body carries).
C23_Provenance ==
    (snapshot.emitted /\ ~TEST_MODE) =>
        /\ \A a \in 1..Len(snapshot.vehicles) :
            /\ snapshot.vehicles[a].source_location \in Names(snapshot.success_locations)
            /\ snapshot.vehicles[a].source_location \notin Names(snapshot.failed_locations)
            /\ \E i \in Indices :
                /\ NameOf(i) = snapshot.vehicles[a].source_location
                /\ FromBodyOf(i, snapshot.vehicles[a])
        /\ \A i \in Indices :
            NameOf(i) \in Names(snapshot.failed_locations) =>
                \A a \in 1..Len(snapshot.vehicles) :
                    /\ snapshot.vehicles[a].source_location # NameOf(i)
                    /\ ~FromBodyOf(i, snapshot.vehicles[a])

\* A published snapshot with vehicles, next to a failed location whose
\* error response carried vehicle records.
C23_Witness ==
    /\ snapshot.emitted
    /\ ~TEST_MODE
    /\ Len(snapshot.vehicles) > 0
    /\ \E i \in Indices :
        /\ NameOf(i) \in Names(snapshot.failed_locations)
        /\ RawRecords(<<BodySent(i)>>) # {}

\* ------------------------------------------------- runs side by side
\* The list holds, in some order, what fetch_single_location built in the
\* run's own call for each location, the upstream behaving as own_posts.
OwnResults(responses, own_posts) ==
    /\ Len(responses) = Len(LOCATIONS)
    /\ \A i \in Indices :
        \E k \in 1..Len(responses) :
            responses[k] = fetch_single_location(LOCATIONS[i], own_posts[i]).result

\* The vehicle list holds a vehicle for each first usable raw record of
\* the results, and nothing else.
MergedFrom(vs, responses) ==
    /\ \A a \in 1..Len(vs) : \E o \in RawRecords(responses) : BuiltFrom(responses, vs[a], o)
    /\ \A o \in RawRecords(responses) :
        (FirstOfItsId(responses, o) /\ CoordsUsable(responses, o))
            => RawId(responses, o) \in OutputIds(vs)

\* The two location lists split the locations as the run's own calls went.
SplitAsFetched(success_locations, failed_locations, own_posts) ==
    \A i \in Indices :
        LET ok == fetch_single_location(LOCATIONS[i], own_posts[i]).result.success IN
        /\ (NameOf(i) \in Names(success_locations)) <=> ok
        /\ (NameOf(i) \in Names(failed_locations)) <=> ~ok

\* Request thread r runs test_api on the live path and has its vehicles.
RunMerged(r) == ~TEST_MODE /\ requests[r].pc \in {"merged", "replied"}

\* Request thread r has built its reply on the live path.
RunReplied(r) == ~TEST_MODE /\ requests[r].pc = "replied"

\* C22 (cycle-private state): with the loop and two /test-api requests
\* running side by side, every run has a result list that holds exactly the
\* results of its own calls, a vehicle list merged from that list alone, and
\* a reply or snapshot (counts, vehicles, success and failed locations)
\* computed from these; the loop's snapshot of an iteration is built from
\* the calls of that iteration and of no earlier one.
C22_CyclePrivateState ==
    /\ \A r \in RequestThreads :
        /\ RunMerged(r) =>
            /\ OwnResults(requests[r].responses, requests[r].posts)
            /\ MergedFrom(requests[r].vehicles, requests[r].responses)
        /\ RunReplied(r) =>
            /\ requests[r].reply.vehicle_count = Len(requests[r].vehicles)
            /\ requests[r].reply.vehicles_sample = SampleOf(requests[r].vehicles)
            /\ SplitAsFetched(requests[r].reply.success_locations,
                              requests[r].reply.failed_locations, requests[r].posts)
    /\ (~TEST_MODE /\ pc \in {"emit", "sleep"}) =>
        /\ OwnResults(all_responses, posts)
        /\ MergedFrom(vehicles, all_responses)
    /\ (~TEST_MODE /\ snapshot.emitted) =>
        /\ snapshot.vehicles = vehicles
        /\ snapshot.count = Len(vehicles)
        /\ SplitAsFetched(snapshot.success_locations, snapshot.failed_locations, posts)

\* The loop has published a snapshot with vehicles while one request, whose
\* own calls all failed, has replied with none, and the other request stands
\* between its fetch and its merge with results of its own.
C22_Witness ==
    /\ ~TEST_MODE
    /\ snapshot.emitted
    /\ Len(snapshot.vehicles) > 0
    /\ \E r1, r2 \in RequestThreads :
        /\ RunReplied(r1)
        /\ requests[r1].reply.vehicle_count = 0
        /\ requests[r1].reply.success_locations = <<>>
        /\ requests[r2].pc = "fetched"
        /\ requests[r2].responses # all_responses

\* ------------------------------------------- the single-location server
\* The two floats get_vehicles reads from the body of the request on
\* thread t.
LatOf(t) ==
    Float(Get(IF backend.calls[t].data = NoData THEN EmptyMap ELSE backend.calls[t].data,
              "lat", JNum(18)))
LngOf(t) ==
    Float(Get(IF backend.calls[t].data = NoData THEN EmptyMap ELSE backend.calls[t].data,
              "lng", JNum(98)))

\* The handler on thread t has called fetch_from_bolt (line 191) and is
\* through.
CalledFetch(t) == backend.calls[t].pc = "done" /\ ~IsExc(LatOf(t)) /\ ~IsExc(LngOf(t))

\* What that call returned or raised.
LiveFetch(t) ==
    fetch_from_bolt(backend.bolt_token, backend.strict_json, LatOf(t), LngOf(t),
                    backend.calls[t].upstream)

\* The call raised or returned an empty list.
FetchFailed(t) == LiveFetch(t).exception # "none" \/ LiveFetch(t).vehicles = <<>>

\* The ids of a list of vehicles, in order.
IdsOf(vs) == [k \in 1..Len(vs) |-> vs[k].id]

\* C24 - Fallback of the single-location variant (the claim as stated):
\* whenever get_vehicles has called fetch_from_bolt it answers with a
\* response whose vehicles list is not empty and whose stats.total is the
\* length of that list; when the call raised or returned an empty list the
\* vehicles are those of build_fallback_vehicles and connection is
\* "offline"; and connection is "connected" exactly when the call returned
\* at least one vehicle.
C24_FallbackOffline ==
    \A t \in RequestThreads :
        CalledFetch(t) =>
            LET response == backend.calls[t].response IN
            /\ response.status = 200
            /\ Len(response.vehicles) > 0
            /\ response.stats.total = Len(response.vehicles)
            /\ FetchFailed(t) =>
                /\ response.stats.connection = "offline"
                /\ IdsOf(response.vehicles)
                       = IdsOf(build_fallback_vehicles(LatOf(t), LngOf(t)).vehicles)
            /\ (response.stats.connection = "connected") <=> ~FetchFailed(t)

====
